---- MODULE Spec2Model ----
(***************************************************************************)
(* State-machine model of the FBDDesigner canvas editor.                   *)
(*                                                                         *)
(* Two canvas controllers of the repository are modelled side by side,     *)
(* selected by the variable `canvas`:                                      *)
(*   "hooks"  - Canvas built on useUndoRedo / useTextEditing / useDrawing  *)
(*              / useSelection / useCanvasState (unnamed/part_000:490..)   *)
(*   "inline" - Canvas holding all state itself (unnamed/part_003)         *)
(* together with the App that owns the active tool (src/App.tsx:76..110).  *)
(*                                                                         *)
(* React semantics: an event handler reads the state of the render it was  *)
(* created in (the unprimed variables) and queues updates; the queued      *)
(* updates are applied in order once the handler returns.  A handler is    *)
(* therefore one atomic action.  Its queued updates are accumulated in a   *)
(* record `u` (initially St, the current state): setX(v) overwrites u.X,   *)
(* setX(prev => f(prev)) rewrites u.X from u.X, and every other read is a   *)
(* read of the unprimed variable captured by the closure.                  *)
(*                                                                         *)
(* Nullable values (T | null) are encoded as sequences: None is null and   *)
(* Some(v) is v.  Strings are sequences of one-character strings.          *)
(* Canvas lengths that involve the line height fontSize * 1.2 are compared *)
(* after multiplying both sides by 5, so that all arithmetic is integer.   *)
(***************************************************************************)
EXTENDS Integers, Sequences, FiniteSets, TLC

VARIABLES
  canvas,               \* which Canvas implementation is mounted
  selectedTool,         \* App: the active tool
  shapes,               \* the live scene
  history,              \* undo/redo snapshots
  historyIndex,         \* index (0-based, as in the code) of the current one
  editingText,          \* None or Some(text shape being edited)
  textCursorPosition,
  textSelectionStart,   \* None or Some(index)
  textSelectionEnd,     \* None or Some(index)
  lastClickTime,
  lastClickedTextId,    \* None or Some(id)
  selectedShapes,       \* set of shape ids
  isPanning,
  lastPanPoint,
  offset,
  scale,
  isDrawing,
  drawStart,
  drawEnd,
  currentPencilPoints,
  isSelecting,
  selectionStart,
  selectionEnd,
  isResizingText,
  textResizeHandle,     \* None or Some("nw" | "ne" | "sw" | "se")
  textResizeStartMouse,
  originalFontSize,
  nextId,               \* the id the generator (Date.now, Math.random) returns next
  lastOp,               \* history variable: the handler (and branch) that ran last
  lastCommits,          \* history variable: addToHistory calls made by that handler
  trip,                 \* history variable: the commits made since the start and the
                        \* undos / redos that followed them (see TripUndo)
  lastDiscarded,        \* history variable: snapshots beyond the index that the
                        \* handler's commit dropped
  heldButtons           \* environment: the mouse buttons that went down on the
                        \* canvas and have not come up (gesture specification)

vars == <<canvas, selectedTool, shapes, history, historyIndex, editingText,
          textCursorPosition, textSelectionStart, textSelectionEnd,
          lastClickTime, lastClickedTextId, selectedShapes, isPanning,
          lastPanPoint, offset, scale, isDrawing, drawStart, drawEnd,
          currentPencilPoints, isSelecting, selectionStart, selectionEnd,
          isResizingText, textResizeHandle, textResizeStartMouse,
          originalFontSize, nextId, lastOp, lastCommits, trip,
          lastDiscarded, heldButtons>>

----------------------------------------------------------------------------
(* Bounds of the model *)

\* History size limit.  The code's limit is 50 (and 49 = limit - 1 for the
\* index); the model runs the same code with the limit scaled down.
HistoryCap == 5

\* Largest number of shapes in the scene, and of ids handed out, in the
\* history specification.
MaxShapes == 2

\* The same in the text specification.
MaxEditedTexts == 1

\* Longest history in the text specification: the initial scene, the text
\* as placed and the text as left.
MaxTextHistory == 3

\* Longest text of a text shape.
MaxTextLen == 2

\* Largest pan offset (absolute value, per axis).
MaxPan == 10

\* Longest freehand stroke.
MaxPencilPoints == 2

\* Longest history of the gesture specification.
MaxGestureHistory == 3

\* Most shapes drawn in the drawing specification.
MaxDrawnShapes == 1

\* Smallest font size followed by the resize specification.
MinExploredFontSize == 13

\* Longest text of the id specification.
MaxIdTextLen == 1

\* Most shapes in the scene of the selection specification.
MaxSelectShapes == 3

\* Largest denominators of the scale and of the offset coordinates, and the
\* largest offset, followed by the zoom specification.
MaxScaleDen == 100

MaxOffsetDen == 100

MaxZoomOffset == 20

\* Longest text of the insertion specification.
MaxInsertLen == 5

\* Most objects placed on or imported into the fabric canvas.
MaxFabricObjects == 5

(* Program constants *)
DoubleClickMs == 400
DefaultFontSize == 16
HandleSize == 10
BoxPadding == 5
MinMarquee == 5
MinDrawSize == 5
HitThreshold == 5
TabSpaces == 4
ResizeSensitivity == 200
MinFontSize == 8
MaxFontSize == 200

----------------------------------------------------------------------------
(* Values *)

None == <<>>
Some(v) == <<v>>
Val(o) == o[1]

NL == "\n"
SP == " "

Pt(px, py) == [x |-> px, y |-> py]
Origin == Pt(0, 0)

Min(a, b) == IF a < b THEN a ELSE b
Max(a, b) == IF a > b THEN a ELSE b
Abs(a) == IF a < 0 THEN -a ELSE a

\* Array.prototype.slice / String.prototype.slice (begin, end), 0-based, with
\* JavaScript's treatment of negative and out-of-range indices.
SliceIndex(s, i) == IF i < 0 THEN Max(Len(s) + i, 0) ELSE Min(i, Len(s))
Slice(s, a, b) == SubSeq(s, SliceIndex(s, a) + 1, SliceIndex(s, b))
SliceFrom(s, a) == SubSeq(s, SliceIndex(s, a) + 1, Len(s))

\* text.split('\n')
RECURSIVE SplitLines(_)
SplitLines(t) ==
  IF \A i \in 1..Len(t) : t[i] # NL
  THEN <<t>>
  ELSE LET k == CHOOSE i \in 1..Len(t) :
                  t[i] = NL /\ \A j \in 1..(i - 1) : t[j] # NL
       IN <<SubSeq(t, 1, k - 1)>> \o SplitLines(SubSeq(t, k + 1, Len(t)))

\* shapes.map(shape => shape.id === id ? updated : shape)
ReplaceShape(ss, id, updated) ==
  [i \in 1..Len(ss) |-> IF ss[i].id = id THEN updated ELSE ss[i]]

----------------------------------------------------------------------------
(* Shape factories.  A fresh id is drawn from nextId by the caller; the    *)
(* style fields (strokeColor, fontFamily, fillColor) are constant in the   *)
(* two canvases and are left out.                                          *)

CreateText(id, px, py) ==
  [id |-> id, type |-> "text", x |-> px, y |-> py, text |-> <<>>,
   fontSize |-> DefaultFontSize, isEditing |-> TRUE]

\* updateText that gives the shape another id
UpdateTextRenaming(shape, newText) ==
  [shape EXCEPT !.text = newText, !.id = @ + 1]

UpdateText(shape, newText) == [shape EXCEPT !.text = newText]

FinishEditingShape(shape) == [shape EXCEPT !.isEditing = FALSE]

\* A factory that anchors the rectangle at the start corner
CreateRectangleFromStart(id, startX, startY, endX, endY) ==
  [id |-> id, type |-> "rectangle", x |-> startX, y |-> startY,
   width |-> endX - startX, height |-> endY - startY]

\* RectangleDrawer.createRectangle(startX, startY, endX, endY)
CreateRectangle(id, startX, startY, endX, endY) ==
  [id |-> id, type |-> "rectangle", x |-> Min(startX, endX),
   y |-> Min(startY, endY), width |-> Abs(endX - startX),
   height |-> Abs(endY - startY)]

\* The centre is (start + end) / 2 and the radius sqrt(dx^2 + dy^2) / 2; the
\* model keeps twice the centre and the squared diameter, which are integers.
CreateCircle(id, startX, startY, endX, endY) ==
  [id |-> id, type |-> "circle", twiceX |-> startX + endX,
   twiceY |-> startY + endY,
   diameterSq |-> (endX - startX) * (endX - startX)
                  + (endY - startY) * (endY - startY)]

CreateLine(id, startX, startY, endX, endY) ==
  [id |-> id, type |-> "line", x1 |-> startX, y1 |-> startY,
   x2 |-> endX, y2 |-> endY]

CreateArrow(id, startX, startY, endX, endY) ==
  [id |-> id, type |-> "arrow", x1 |-> startX, y1 |-> startY,
   x2 |-> endX, y2 |-> endY]

CreatePencil(id, points) == [id |-> id, type |-> "pencil", points |-> points]

----------------------------------------------------------------------------
(* Text measurement and text geometry *)

\* context.measureText(s).width for the given font size: the browser's text
\* measurement, taken here as a fixed-pitch font of advance fontSize / 2.
MeasureText(s, fontSize) == Len(s) * (fontSize \div 2)

RECURSIVE MaxLineWidth(_, _)
MaxLineWidth(lines, fontSize) ==
  IF lines = <<>> THEN 0
  ELSE Max(MeasureText(Head(lines), fontSize), MaxLineWidth(Tail(lines), fontSize))

GetTextWidth(shape) == MaxLineWidth(SplitLines(shape.text), shape.fontSize)

\* 5 * getTextHeight(shape), where getTextHeight = lines * fontSize * 1.2
GetTextHeight5(shape) == Len(SplitLines(shape.text)) * shape.fontSize * 6

RECURSIVE CharsBefore(_, _)
CharsBefore(lines, n) ==
  IF n = 0 THEN 0 ELSE Len(lines[n]) + 1 + CharsBefore(lines, n - 1)

GetCursorPositionFromPoint(shape, clickX, clickY) ==
  LET lines == SplitLines(shape.text)
      \* floor((clickY - shape.y) / (fontSize * 1.2))
      lineIndex == (5 * (clickY - shape.y)) \div (6 * shape.fontSize)
      clampedLineIndex == Max(0, Min(Len(lines) - 1, lineIndex))
      charCount == CharsBefore(lines, clampedLineIndex)
      line == lines[clampedLineIndex + 1]
      relativeX == clickX - shape.x
      dist(i) == Abs(relativeX - MeasureText(SubSeq(line, 1, i), shape.fontSize))
      \* the loop keeps the first position of strictly smaller distance
      bestPosition == CHOOSE i \in 0..Len(line) :
                        /\ \A j \in 0..Len(line) : dist(i) <= dist(j)
                        /\ \A j \in 0..(i - 1) : dist(j) > dist(i)
  IN charCount + bestPosition

----------------------------------------------------------------------------
(* Coordinate transform and hit testing *)

\* (point - offset) / scale.  The specifications below keep scale at 1, where
\* the division is exact.
ScreenToCanvas(p) ==
  Pt((p.x - offset.x) \div scale, (p.y - offset.y) \div scale)

HitTestRectangle(shape, p) ==
  /\ p.x >= shape.x /\ p.x <= shape.x + shape.width
  /\ p.y >= shape.y /\ p.y <= shape.y + shape.height

\* distance(p, centre) <= radius, both sides doubled and squared
HitTestCircle(shape, p) ==
  (2 * p.x - shape.twiceX) * (2 * p.x - shape.twiceX)
    + (2 * p.y - shape.twiceY) * (2 * p.y - shape.twiceY) <= shape.diameterSq

\* Distance from p to the segment (x1,y1)-(x2,y2) at most HitThreshold:
\* projection parameter param = dot / lenSq clamped to [0, 1].
HitTestSegment(sx1, sy1, sx2, sy2, p) ==
  LET A == p.x - sx1
      B == p.y - sy1
      C == sx2 - sx1
      D == sy2 - sy1
      dot == A * C + B * D
      lenSq == C * C + D * D
      T2 == HitThreshold * HitThreshold
  IN IF lenSq = 0 \/ dot < 0
     THEN A * A + B * B <= T2
     ELSE IF dot > lenSq
          THEN (p.x - sx2) * (p.x - sx2) + (p.y - sy2) * (p.y - sy2) <= T2
          \* |p - foot|^2 = |A,B|^2 - dot^2 / lenSq
          ELSE (A * A + B * B) * lenSq - dot * dot <= T2 * lenSq

HitTestLine(shape, p) == HitTestSegment(shape.x1, shape.y1, shape.x2, shape.y2, p)

HitTestArrow(shape, p) == HitTestLine(shape, p)

HitTestPencil(shape, p) ==
  \E i \in 1..(Len(shape.points) - 1) :
    HitTestSegment(shape.points[i].x, shape.points[i].y,
                   shape.points[i + 1].x, shape.points[i + 1].y, p)

HitTestText(shape, p) ==
  /\ p.x >= shape.x /\ p.x <= shape.x + GetTextWidth(shape)
  /\ p.y >= shape.y /\ 5 * (p.y - shape.y) <= GetTextHeight5(shape)

IsHit(shape, p) ==
  CASE shape.type = "rectangle" -> HitTestRectangle(shape, p)
    [] shape.type = "circle" -> HitTestCircle(shape, p)
    [] shape.type = "line" -> HitTestLine(shape, p)
    [] shape.type = "arrow" -> HitTestArrow(shape, p)
    [] shape.type = "pencil" -> HitTestPencil(shape, p)
    [] shape.type = "text" -> HitTestText(shape, p)
    [] OTHER -> FALSE

\* findShapeAtPoint that walks the scene from the first shape to the last
FindShapeAtPointBottomUp(point, ss) ==
  LET canvasPoint == ScreenToCanvas(point)
      hits == {i \in 1..Len(ss) : IsHit(ss[i], canvasPoint)}
  IN IF hits = {} THEN None
     ELSE Some(ss[CHOOSE i \in hits : \A j \in hits : i <= j])

\* The loop of findShapeAtPoint: from shape i (1-based) down to the first
RECURSIVE FindShapeFrom(_, _, _)
FindShapeFrom(i, ss, canvasPoint) ==
  IF i < 1 THEN None
  ELSE IF IsHit(ss[i], canvasPoint) THEN Some(ss[i])
  ELSE FindShapeFrom(i - 1, ss, canvasPoint)

\* Walks the scene from the last shape to the first and returns the first hit.
FindShapeAtPoint(point, ss) == FindShapeFrom(Len(ss), ss, ScreenToCanvas(point))

\* getResizeHandle(mousePos, getShapeBoundingBox(textShape)): the first corner
\* of the padded bounding box, in screen space, within HandleSize of the
\* pointer in both axes.  Vertical coordinates are multiplied by 5.
GetResizeHandle(mousePos, textShape) ==
  LET left == (textShape.x - BoxPadding) * scale + offset.x
      top5 == 5 * ((textShape.y - BoxPadding) * scale + offset.y)
      width == (GetTextWidth(textShape) + 2 * BoxPadding) * scale
      height5 == (GetTextHeight5(textShape) + 5 * 2 * BoxPadding) * scale
      near(hx, hy5) == /\ Abs(mousePos.x - hx) <= HandleSize
                       /\ Abs(5 * mousePos.y - hy5) <= 5 * HandleSize
  IN IF near(left, top5) THEN Some("nw")
     ELSE IF near(left + width, top5) THEN Some("ne")
     ELSE IF near(left, top5 + height5) THEN Some("sw")
     ELSE IF near(left + width, top5 + height5) THEN Some("se")
     ELSE None

----------------------------------------------------------------------------
(* History variable `trip`: the round trip "N commits, N undos, N redos".  *)
(* scenes holds the initial scene followed by the scenes passed to         *)
(* addToHistory since the start, as long as nothing but commits touched    *)
(* the history; then k counts the undos, and after N undos the redos.      *)
(* Anything off that path makes the record void.                           *)

TripVoid == [phase |-> "void", scenes |-> <<>>, k |-> 0]

TripCommits(t) == Len(t.scenes) - 1

\* addToHistory(newShapes) was called
TripCommit(t, newShapes) ==
  IF t.phase = "commits"
  THEN (IF TripCommits(t) > HistoryCap THEN t
        ELSE [t EXCEPT !.scenes = Append(@, newShapes)])
  ELSE TripVoid

\* the undo shortcut was handled
TripUndo(t) ==
  IF t.phase = "commits" /\ TripCommits(t) >= 1 /\ TripCommits(t) < HistoryCap
  THEN [t EXCEPT !.phase = "undos", !.k = 1]
  ELSE IF t.phase = "undos" /\ t.k < TripCommits(t)
  THEN [t EXCEPT !.k = @ + 1]
  ELSE TripVoid

\* the redo shortcut was handled
TripRedo(t) ==
  IF t.phase = "undos" /\ t.k = TripCommits(t)
  THEN [t EXCEPT !.phase = "redos", !.k = 1]
  ELSE IF t.phase = "redos" /\ t.k < TripCommits(t)
  THEN [t EXCEPT !.k = @ + 1]
  ELSE TripVoid

----------------------------------------------------------------------------
(* The state as a record, and the queued updates of one handler *)

\* lastOp names the handler branch that ran last where the properties below
\* need it: a key handled by the text editor ("extend" for ArrowLeft and
\* ArrowRight with shift, "edit" for the others), an undo or a redo that found
\* nothing to do, a mouseup or a mouseleave; every other branch is "other".
Op(name, detail) == [op |-> name, detail |-> detail]

\* A handler starts from St: the rendered state, with nothing queued yet.

St ==
  [selectedTool |-> selectedTool, shapes |-> shapes, history |-> history,
   historyIndex |-> historyIndex, editingText |-> editingText,
   textCursorPosition |-> textCursorPosition,
   textSelectionStart |-> textSelectionStart,
   textSelectionEnd |-> textSelectionEnd, lastClickTime |-> lastClickTime,
   lastClickedTextId |-> lastClickedTextId, selectedShapes |-> selectedShapes,
   isPanning |-> isPanning, lastPanPoint |-> lastPanPoint, offset |-> offset,
   scale |-> scale, isDrawing |-> isDrawing, drawStart |-> drawStart,
   drawEnd |-> drawEnd, currentPencilPoints |-> currentPencilPoints,
   isSelecting |-> isSelecting, selectionStart |-> selectionStart,
   selectionEnd |-> selectionEnd, isResizingText |-> isResizingText,
   textResizeHandle |-> textResizeHandle,
   textResizeStartMouse |-> textResizeStartMouse,
   originalFontSize |-> originalFontSize, nextId |-> nextId,
   lastOp |-> Op("other", "none"), lastCommits |-> 0, trip |-> trip,
   lastDiscarded |-> 0]

\* "Clear selections when tool changes (except when switching to select)":
\* the effect that runs after a render in which selectedTool changed.
ToolChangeEffect(u) ==
  IF u.selectedTool # selectedTool /\ u.selectedTool # "select"
  THEN [u EXCEPT !.selectedShapes = {}]
  ELSE u

\* A handler that changes the scene during the undos or the redos of a round
\* trip, and is none of commit, undo and redo, ends the round trip.
TripAfter(u) ==
  IF /\ u.trip.phase \in {"undos", "redos"}
     /\ u.trip = trip
     /\ u.shapes # shapes
  THEN TripVoid
  ELSE u.trip

\* The handler returns: React applies the queued updates and runs the effects.
Apply(u0) ==
  LET u == ToolChangeEffect(u0)
  IN /\ selectedTool' = u.selectedTool
     /\ shapes' = u.shapes
     /\ history' = u.history
     /\ historyIndex' = u.historyIndex
     /\ editingText' = u.editingText
     /\ textCursorPosition' = u.textCursorPosition
     /\ textSelectionStart' = u.textSelectionStart
     /\ textSelectionEnd' = u.textSelectionEnd
     /\ lastClickTime' = u.lastClickTime
     /\ lastClickedTextId' = u.lastClickedTextId
     /\ selectedShapes' = u.selectedShapes
     /\ isPanning' = u.isPanning
     /\ lastPanPoint' = u.lastPanPoint
     /\ offset' = u.offset
     /\ scale' = u.scale
     /\ isDrawing' = u.isDrawing
     /\ drawStart' = u.drawStart
     /\ drawEnd' = u.drawEnd
     /\ currentPencilPoints' = u.currentPencilPoints
     /\ isSelecting' = u.isSelecting
     /\ selectionStart' = u.selectionStart
     /\ selectionEnd' = u.selectionEnd
     /\ isResizingText' = u.isResizingText
     /\ textResizeHandle' = u.textResizeHandle
     /\ textResizeStartMouse' = u.textResizeStartMouse
     /\ originalFontSize' = u.originalFontSize
     /\ nextId' = u.nextId
     /\ lastOp' = u.lastOp
     /\ lastCommits' = u.lastCommits
     /\ trip' = TripAfter(u)
     /\ lastDiscarded' = u.lastDiscarded
     /\ UNCHANGED canvas

----------------------------------------------------------------------------
(* Undo / redo history (useUndoRedo, and the same code inline in part_003) *)

\* addToHistory without the slice: the snapshots beyond the index stay
AddToHistoryKeepingTail(u, newShapes) ==
  LET newHistory == Append(u.history, newShapes)
      newIndex == u.historyIndex + 1
  IN [u EXCEPT
        !.history = IF Len(newHistory) > HistoryCap
                    THEN SliceFrom(newHistory, 1) ELSE newHistory,
        !.historyIndex = IF newIndex > HistoryCap - 1 THEN HistoryCap - 1
                         ELSE newIndex,
        !.lastCommits = @ + 1,
        !.trip = TripCommit(@, newShapes),
        !.lastDiscarded = Len(history) - Len(Slice(history, 0, historyIndex + 1))]

\* addToHistory without the size limit
AddToHistoryUnbounded(u, newShapes) ==
  LET newHistory == Append(Slice(u.history, 0, historyIndex + 1), newShapes)
  IN [u EXCEPT
        !.history = newHistory,
        !.historyIndex = @ + 1,
        !.lastCommits = @ + 1,
        !.trip = TripCommit(@, newShapes),
        !.lastDiscarded = Len(history) - Len(Slice(history, 0, historyIndex + 1))]

\* addToHistory(newShapes).  historyIndex in the slice is the value captured
\* by the callback (the unprimed variable); the two updater functions work
\* on the queued values.
AddToHistory(u, newShapes) ==
  LET newHistory == Append(Slice(u.history, 0, historyIndex + 1), newShapes)
      newIndex == u.historyIndex + 1
  IN [u EXCEPT
        !.history = IF Len(newHistory) > HistoryCap
                    THEN SliceFrom(newHistory, 1) ELSE newHistory,
        !.historyIndex = IF newIndex > HistoryCap - 1 THEN HistoryCap - 1
                         ELSE newIndex,
        !.lastCommits = @ + 1,
        !.trip = TripCommit(@, newShapes),
        !.lastDiscarded = Len(history) - Len(Slice(history, 0, historyIndex + 1))]

\* undo without the guard on index 0
UndoBelowZero(u) ==
  LET newIndex == historyIndex - 1
  IN IF 0 <= newIndex /\ newIndex < Len(history)
     THEN [u EXCEPT !.historyIndex = newIndex,
                    !.shapes = history[newIndex + 1],
                    !.trip = TripUndo(@)]
     ELSE [u EXCEPT !.historyIndex = newIndex, !.trip = TripUndo(@)]

\* undo(), with the caller's setShapes.  history[newIndex] is undefined when
\* newIndex is past the end; spreading it throws, after setHistoryIndex has
\* been queued and before setShapes is.
Undo(u) ==
  IF historyIndex > 0
  THEN LET newIndex == historyIndex - 1
       IN IF newIndex < Len(history)
          THEN [u EXCEPT !.historyIndex = newIndex,
                         !.shapes = history[newIndex + 1],
                         !.trip = TripUndo(@)]
          ELSE [u EXCEPT !.historyIndex = newIndex,
                         !.trip = TripUndo(@),
                         !.lastOp = Op("undo", "throws")]
  ELSE [u EXCEPT !.trip = TripUndo(@), !.lastOp = Op("undo", "nothing")]

\* redo(), with the caller's setShapes.
Redo(u) ==
  IF historyIndex < Len(history) - 1
  THEN LET newIndex == historyIndex + 1
       IN [u EXCEPT !.historyIndex = newIndex,
                    !.shapes = history[newIndex + 1],
                    !.trip = TripRedo(@)]
  ELSE [u EXCEPT !.trip = TripRedo(@), !.lastOp = Op("redo", "nothing")]

----------------------------------------------------------------------------
(* Text editing state (useTextEditing, and the same state inline) *)

StartEditing(u, textShape, cursorPos) ==
  [u EXCEPT !.editingText = Some(textShape),
            !.textCursorPosition = cursorPos,
            !.textSelectionStart = None,
            !.textSelectionEnd = None]

\* finishEditing that leaves the selection behind
FinishEditingKeepingSelection(u) ==
  IF editingText = None THEN u
  ELSE [u EXCEPT !.editingText = None,
                 !.textCursorPosition = 0]

\* The state updates of useTextEditing.finishEditing (its result is
\* FinishEditingShape of the captured editingText).
FinishEditing(u) ==
  IF editingText = None THEN u
  ELSE [u EXCEPT !.editingText = None,
                 !.textCursorPosition = 0,
                 !.textSelectionStart = None,
                 !.textSelectionEnd = None]

\* The inline canvas leaves edit mode by pointer without resetting the caret.
FinishEditingInline(u) ==
  [u EXCEPT !.editingText = None,
            !.textSelectionStart = None,
            !.textSelectionEnd = None]

ClearTextSelection(u) ==
  [u EXCEPT !.textSelectionStart = None, !.textSelectionEnd = None]

HasTextSelection == textSelectionStart # None /\ textSelectionEnd # None

\* deleteSelectedText(): the text without the selected range, and the caret
DeleteSelectedText ==
  LET text == Val(editingText).text
  IN IF HasTextSelection
     THEN LET start == Min(Val(textSelectionStart), Val(textSelectionEnd))
              end == Max(Val(textSelectionStart), Val(textSelectionEnd))
          IN [newText |-> Slice(text, 0, start) \o SliceFrom(text, end),
              newCursorPos |-> start]
     ELSE [newText |-> text, newCursorPos |-> textCursorPosition]

\* updateText that commits each change of the text
SetEditedTextCommitting(u, newText) ==
  LET updatedText == UpdateText(Val(editingText), newText)
      newShapes == ReplaceShape(u.shapes, Val(editingText).id, updatedText)
  IN AddToHistory([u EXCEPT !.editingText = Some(updatedText),
                            !.shapes = newShapes], newShapes)

\* updateText(newText) followed by the caller's setShapes(prev => prev.map(..))
SetEditedText(u, newText) ==
  LET updatedText == UpdateText(Val(editingText), newText)
  IN [u EXCEPT !.editingText = Some(updatedText),
               !.shapes = ReplaceShape(@, Val(editingText).id, updatedText)]

\* An insertion at the caret that leaves a selected range in the text
InsertKeyKeepingSelection(u, s) ==
  LET newText == Slice(Val(editingText).text, 0, textCursorPosition) \o s
                 \o SliceFrom(Val(editingText).text, textCursorPosition)
  IN ClearTextSelection(
       [SetEditedText(u, newText) EXCEPT
          !.textCursorPosition = textCursorPosition + Len(s)])

\* Enter, Tab and printable keys: insert s, replacing the selection if any
InsertKey(u, s) ==
  LET d == DeleteSelectedText
      newText == Slice(d.newText, 0, d.newCursorPos) \o s
                 \o SliceFrom(d.newText, d.newCursorPos)
  IN ClearTextSelection(
       [SetEditedText(u, newText) EXCEPT
          !.textCursorPosition = d.newCursorPos + Len(s)])

\* Delete handled like Backspace: the character before the caret goes
BackspaceOrDeleteKeyBackwards(u, key) ==
  LET text == Val(editingText).text
  IN IF HasTextSelection
     THEN LET d == DeleteSelectedText
          IN ClearTextSelection(
               [SetEditedText(u, d.newText) EXCEPT
                  !.textCursorPosition = d.newCursorPos])
     ELSE IF textCursorPosition > 0
     THEN [SetEditedText(u, Slice(text, 0, textCursorPosition - 1)
                            \o SliceFrom(text, textCursorPosition))
             EXCEPT !.textCursorPosition = textCursorPosition - 1]
     ELSE u

BackspaceOrDeleteKey(u, key) ==
  LET text == Val(editingText).text
  IN IF HasTextSelection
     THEN LET d == DeleteSelectedText
          IN ClearTextSelection(
               [SetEditedText(u, d.newText) EXCEPT
                  !.textCursorPosition = d.newCursorPos])
     ELSE IF key = "Backspace" /\ textCursorPosition > 0
     THEN [SetEditedText(u, Slice(text, 0, textCursorPosition - 1)
                            \o SliceFrom(text, textCursorPosition))
             EXCEPT !.textCursorPosition = textCursorPosition - 1]
     ELSE IF key = "Delete" /\ textCursorPosition < Len(text)
     THEN SetEditedText(u, Slice(text, 0, textCursorPosition)
                           \o SliceFrom(text, textCursorPosition + 1))
     ELSE u

\* Shift + arrow that anchors the selection at the caret on every press
ExtendSelectionFromCaret(u, newPos) ==
  [u EXCEPT !.textSelectionStart = Some(textCursorPosition),
            !.textCursorPosition = newPos,
            !.textSelectionEnd = Some(newPos)]

\* Shift + arrow: anchor the selection at the caret if there is none, move
\* the caret to newPos and end the selection there.
ExtendSelection(u, newPos) ==
  [u EXCEPT !.textSelectionStart = IF textSelectionStart = None
                                   THEN Some(textCursorPosition) ELSE @,
            !.textCursorPosition = newPos,
            !.textSelectionEnd = Some(newPos)]

\* ArrowLeft that takes the caret to the far end of a selection
ArrowLeftKeyToSelectionEnd(u, shiftKey) ==
  IF shiftKey
  THEN ExtendSelection(u, Max(0, textCursorPosition - 1))
  ELSE IF HasTextSelection
  THEN ClearTextSelection(
         [u EXCEPT !.textCursorPosition =
                     Max(Val(textSelectionStart), Val(textSelectionEnd))])
  ELSE [u EXCEPT !.textCursorPosition = Max(0, textCursorPosition - 1)]

ArrowLeftKey(u, shiftKey) ==
  IF shiftKey
  THEN ExtendSelection(u, Max(0, textCursorPosition - 1))
  ELSE IF HasTextSelection
  THEN ClearTextSelection(
         [u EXCEPT !.textCursorPosition =
                     Min(Val(textSelectionStart), Val(textSelectionEnd))])
  ELSE [u EXCEPT !.textCursorPosition = Max(0, textCursorPosition - 1)]

ArrowRightKey(u, shiftKey) ==
  LET len == Len(Val(editingText).text)
  IN IF shiftKey
     THEN ExtendSelection(u, Min(len, textCursorPosition + 1))
     ELSE IF HasTextSelection
     THEN ClearTextSelection(
            [u EXCEPT !.textCursorPosition =
                        Max(Val(textSelectionStart), Val(textSelectionEnd))])
     ELSE [u EXCEPT !.textCursorPosition = Min(len, textCursorPosition + 1)]

\* The caret's line, column and line start as found by the loop of the
\* ArrowUp/ArrowDown branch: the first line i with
\* charCount + lines[i].length >= textCursorPosition.
CaretLine(lines, cursor) ==
  LET found == {i \in 0..(Len(lines) - 1) :
                  CharsBefore(lines, i) + Len(lines[i + 1]) >= cursor}
  IN IF found = {}
     THEN [currentLine |-> 0, positionInLine |-> 0,
           charCount |-> CharsBefore(lines, Len(lines))]
     ELSE LET i == CHOOSE k \in found : \A j \in found : k <= j
          IN [currentLine |-> i, positionInLine |-> cursor - CharsBefore(lines, i),
              charCount |-> CharsBefore(lines, i)]

\* newCursorPos of the ArrowUp/ArrowDown branch (inline canvas)
VerticalCursorPos(text, cursor, key) ==
  LET lines == SplitLines(text)
      c == CaretLine(lines, cursor)
      cur == c.currentLine + 1
  IN IF key = "ArrowUp" /\ c.currentLine > 0
     THEN LET prevLineStart == c.charCount - Len(lines[cur]) - 1
                               - Len(lines[cur - 1]) - 1
          IN prevLineStart + Min(c.positionInLine, Len(lines[cur - 1]))
     ELSE IF key = "ArrowDown" /\ c.currentLine < Len(lines) - 1
     THEN LET nextLineStart == c.charCount + Len(lines[cur]) + 1
          IN nextLineStart + Min(c.positionInLine, Len(lines[cur + 1]))
     ELSE cursor

ArrowVerticalKey(u, key, shiftKey) ==
  LET newCursorPos ==
        VerticalCursorPos(Val(editingText).text, textCursorPosition, key)
  IN IF shiftKey
     THEN ExtendSelection(u, newCursorPos)
     ELSE ClearTextSelection([u EXCEPT !.textCursorPosition = newCursorPos])

PrintableKeys == {"a", "b", "z"}

Repeat(ch, n) == [i \in 1..n |-> ch]

\* The branches of handleKeyDown below "if (!editingText) return" and the
\* select-all shortcut.  The hooks canvas has no ArrowUp/ArrowDown branch:
\* there the two keys fall through every test.
TextKey(u, e) ==
  CASE e.key = "Enter" -> InsertKey(u, <<NL>>)
    [] e.key \in {"Backspace", "Delete"} -> BackspaceOrDeleteKey(u, e.key)
    [] e.key = "ArrowLeft" -> ArrowLeftKey(u, e.shiftKey)
    [] e.key = "ArrowRight" -> ArrowRightKey(u, e.shiftKey)
    [] e.key \in {"ArrowUp", "ArrowDown"} /\ canvas = "inline" ->
         ArrowVerticalKey(u, e.key, e.shiftKey)
    [] e.key = "Tab" -> InsertKey(u, Repeat(SP, TabSpaces))
    [] e.key \in PrintableKeys -> InsertKey(u, <<e.key>>)
    [] OTHER -> u

\* Leaving edit mode: the edited text gets isEditing = false in a copy of the
\* rendered scene, the copy becomes the scene and is committed.  resetCaret
\* is false only where the inline canvas leaves edit mode by pointer.
FinishAndCommit(u, resetCaret) ==
  LET updatedText == FinishEditingShape(Val(editingText))
      newShapes == ReplaceShape(shapes, Val(editingText).id, updatedText)
      left == IF resetCaret THEN FinishEditing(u) ELSE FinishEditingInline(u)
  IN AddToHistory([left EXCEPT !.shapes = newShapes], newShapes)

\* The Escape branch of handleKeyDown, with App's global Escape listener
EscapeKey(u) ==
  LET done == IF editingText # None THEN FinishAndCommit(u, TRUE) ELSE u
  IN [done EXCEPT !.selectedShapes = {}, !.selectedTool = "select"]

SelectAllKey(u) ==
  LET len == Len(Val(editingText).text)
  IN [u EXCEPT !.textSelectionStart = Some(0),
               !.textSelectionEnd = Some(len),
               !.textCursorPosition = len]

\* handleKeyDown(e)
HandleKeyDown(e) ==
  LET u == St
      named == IF e.shiftKey /\ e.key \in {"ArrowLeft", "ArrowRight"}
               THEN Op("key", "extend")
               ELSE Op("key", "edit")
  IN IF e.mod /\ e.key = "z"
     THEN (IF e.shiftKey THEN Redo(u) ELSE Undo(u))
     ELSE IF e.key = "Escape" THEN EscapeKey(u)
     ELSE IF editingText = None THEN u
     ELSE IF e.mod /\ e.key = "a"
     THEN [SelectAllKey(u) EXCEPT !.lastOp = named]
     ELSE [TextKey(u, e) EXCEPT !.lastOp = named]

----------------------------------------------------------------------------
(* Marquee selection and text resizing *)

\* isShapeInSelection(shape, selectionRect, offset, scale): the shape's
\* extent lies inside the marquee, both in canvas coordinates.
IsShapeInSelection(shape, rect) ==
  LET rx == (rect.x - offset.x) \div scale
      ry == (rect.y - offset.y) \div scale
      rw == rect.width \div scale
      rh == rect.height \div scale
      inside(minX, minY, maxX, maxY) ==
        minX >= rx /\ minY >= ry /\ maxX <= rx + rw /\ maxY <= ry + rh
      \* a >= radius, with a doubled and both sides squared
      atLeastRadius(twiceA) == twiceA >= 0 /\ twiceA * twiceA >= shape.diameterSq
      xs == {shape.points[i].x : i \in 1..Len(shape.points)}
      ys == {shape.points[i].y : i \in 1..Len(shape.points)}
      lo(S) == CHOOSE v \in S : \A w \in S : v <= w
      hi(S) == CHOOSE v \in S : \A w \in S : v >= w
  IN CASE shape.type = "rectangle" ->
            inside(shape.x, shape.y, shape.x + shape.width,
                   shape.y + shape.height)
       [] shape.type = "circle" ->
            /\ atLeastRadius(shape.twiceX - 2 * rx)
            /\ atLeastRadius(shape.twiceY - 2 * ry)
            /\ atLeastRadius(2 * (rx + rw) - shape.twiceX)
            /\ atLeastRadius(2 * (ry + rh) - shape.twiceY)
       [] shape.type \in {"line", "arrow"} ->
            inside(Min(shape.x1, shape.x2), Min(shape.y1, shape.y2),
                   Max(shape.x1, shape.x2), Max(shape.y1, shape.y2))
       [] shape.type = "pencil" ->
            IF Len(shape.points) = 0 THEN FALSE
            ELSE inside(lo(xs), lo(ys), hi(xs), hi(ys))
       [] shape.type = "text" ->
            inside(shape.x, shape.y,
                   shape.x + MeasureText(shape.text, shape.fontSize),
                   shape.y + shape.fontSize)
       [] OTHER -> FALSE

\* The marquee test of handleMouseUp / finishSelection
\* finishSelection without the minimum drag distance
FinishSelectionAnyDrag(u) ==
  [u EXCEPT !.isSelecting = FALSE,
            !.selectedShapes =
              {shapes[i].id : i \in
                 {k \in 1..Len(shapes) :
                    IsShapeInSelection(shapes[k],
                      [x |-> Min(selectionStart.x, selectionEnd.x),
                       y |-> Min(selectionStart.y, selectionEnd.y),
                       width |-> Abs(selectionEnd.x - selectionStart.x),
                       height |-> Abs(selectionEnd.y - selectionStart.y)])}}]

FinishSelection(u) ==
  LET rect == [x |-> Min(selectionStart.x, selectionEnd.x),
               y |-> Min(selectionStart.y, selectionEnd.y),
               width |-> Abs(selectionEnd.x - selectionStart.x),
               height |-> Abs(selectionEnd.y - selectionStart.y)]
      inSelection == {shapes[i].id : i \in
                        {k \in 1..Len(shapes) : IsShapeInSelection(shapes[k], rect)}}
  IN IF rect.width > MinMarquee \/ rect.height > MinMarquee
     THEN [u EXCEPT !.isSelecting = FALSE, !.selectedShapes = inSelection]
     ELSE [u EXCEPT !.isSelecting = FALSE]

\* floor(sqrt(d)) for 0 <= d <= (4 * ResizeSensitivity)^2
ISqrt(d) ==
  CHOOSE m \in 0..(4 * ResizeSensitivity) : m * m <= d /\ d < (m + 1) * (m + 1)

\* a <= b * sqrt(d) and a >= b * sqrt(d) for integers a, b > 0, d >= 0 and
\* m = ISqrt(d), decided on integers: with r = a - b * m strictly between 0
\* and b, compare (b * m + r)^2 with b^2 * d.
LeqRoot(a, b, d, m) ==
  LET r == a - b * m
  IN IF r <= 0 THEN TRUE
     ELSE IF r >= b THEN FALSE
     ELSE 2 * b * m * r + r * r <= b * b * (d - m * m)

GeqRoot(a, b, d, m) ==
  LET r == a - b * m
  IN IF r < 0 THEN FALSE
     ELSE IF r >= b THEN TRUE
     ELSE 2 * b * m * r + r * r >= b * b * (d - m * m)

\* Math.round(Math.max(8, Math.min(200, originalFontSize * scaleFactor)))
\* where scaleFactor = 1 + distance / 200, inverted when the drag goes
\* inwards, clamped to [0.2, 5]; distance = sqrt(distSq).  Computed exactly:
\* round(v) is the largest n with n - 1/2 <= v.
ResizedFontSize(orig, distSq, inwards) ==
  LET maxDist == 4 * ResizeSensitivity
      dSq == Min(distSq, maxDist * maxDist)
      root == ISqrt(dSq)
      \* n - 1/2 <= orig * (S + d) / S
      fitsOut(n) ==
        LeqRoot(ResizeSensitivity * (2 * n - 1 - 2 * orig), 2 * orig, dSq, root)
      \* n - 1/2 <= orig * S / (S + d)
      fitsIn(n) ==
        GeqRoot(ResizeSensitivity * (2 * orig - (2 * n - 1)), 2 * n - 1, dSq, root)
      fits(n) == IF inwards THEN fitsIn(n) ELSE fitsOut(n)
      candidates == {n \in MinFontSize..MaxFontSize : fits(n)}
  IN IF candidates = {} THEN MinFontSize
     \* fits is downward closed in n, so this is the largest candidate
     ELSE CHOOSE n \in candidates : (n + 1) \notin candidates

\* Whether the drag (deltaX, deltaY) on the given handle shrinks the text
DragsInwards(handle, deltaX, deltaY) ==
  CASE handle = "se" -> deltaX < 0 \/ deltaY < 0
    [] handle = "nw" -> deltaX > 0 \/ deltaY > 0
    [] handle = "ne" -> deltaX < 0 \/ deltaY > 0
    [] handle = "sw" -> deltaX > 0 \/ deltaY < 0
    [] OTHER -> FALSE

\* shapes.find(s => s.id === id)
FindShape(ss, id) ==
  LET found == {i \in 1..Len(ss) : ss[i].id = id}
  IN IF found = {} THEN None
     ELSE Some(ss[CHOOSE i \in found : \A j \in found : i <= j])

\* Array.from(selectedShapes)[0] when the set has one element
OnlySelected == CHOOSE id \in selectedShapes : TRUE

----------------------------------------------------------------------------
(* Pointer handlers *)

\* shouldPan(e): modifier + left button, or the middle button
ShouldPan(e) == (e.button = 0 /\ e.mod) \/ e.button = 1

\* The handle under the pointer when handleMouseDown starts a text resize
ResizeHandleAt(mousePos) ==
  IF selectedTool = "select" /\ Cardinality(selectedShapes) = 1
  THEN LET selectedShape == FindShape(shapes, OnlySelected)
       IN IF /\ selectedShape # None
             /\ Val(selectedShape).type = "text"
             /\ (editingText = None
                 \/ Val(editingText).id # Val(selectedShape).id)
          THEN GetResizeHandle(mousePos, Val(selectedShape))
          ELSE None
  ELSE None

\* handleTextClick taking a click exactly DoubleClickMs later as a double
\* click
IsDoubleClickInclusive(textShape, currentTime) ==
  /\ currentTime - lastClickTime <= DoubleClickMs
  /\ lastClickedTextId = Some(textShape.id)

\* handleTextClick: a second click on the same text within DoubleClickMs
IsDoubleClick(textShape, currentTime) ==
  /\ currentTime - lastClickTime < DoubleClickMs
  /\ lastClickedTextId = Some(textShape.id)

\* useSelection: the new value of selectedShapes that selectShape,
\* toggleShapeSelection (an updater of the queued value prev) and
\* clearSelection set; the inline canvas sets the same values in place.
selectShape(shapeId) == {shapeId}

\* A toggle that only ever adds
toggleShapeSelectionAdding(prev, shapeId) == prev \cup {shapeId}

toggleShapeSelection(prev, shapeId) ==
  IF shapeId \in prev THEN prev \ {shapeId} ELSE prev \cup {shapeId}

clearSelection == {}

\* The selection-mode branch of handleMouseDown
SelectModeDown(u, e) ==
  LET clickedShape == FindShapeAtPoint(e.pos, shapes)
      canvasPoint == ScreenToCanvas(e.pos)
  IN IF clickedShape = None
     THEN [u EXCEPT !.selectedShapes = clearSelection, !.isSelecting = TRUE,
                    !.selectionStart = e.pos, !.selectionEnd = e.pos]
     ELSE LET shape == Val(clickedShape)
          IN IF shape.type = "text" /\ ~e.shiftKey
             THEN LET clicked == [u EXCEPT !.lastClickTime = e.time,
                                           !.lastClickedTextId = Some(shape.id)]
                  IN IF IsDoubleClick(shape, e.time)
                     THEN [StartEditing(clicked, shape,
                             GetCursorPositionFromPoint(shape, canvasPoint.x,
                                                        canvasPoint.y))
                             EXCEPT !.selectedShapes = selectShape(shape.id)]
                     ELSE LET selected ==
                                [clicked EXCEPT
                                   !.selectedShapes = selectShape(shape.id)]
                          IN IF editingText # None
                             THEN FinishAndCommit(selected, canvas = "hooks")
                             ELSE selected
             ELSE IF e.shiftKey
             THEN [u EXCEPT !.selectedShapes =
                              toggleShapeSelection(@, shape.id)]
             ELSE [u EXCEPT !.selectedShapes = selectShape(shape.id)]

\* handleMouseDown(e)
HandleMouseDown(e) ==
  LET u == St
      handle == ResizeHandleAt(e.pos)
      canvasPoint == ScreenToCanvas(e.pos)
  IN IF ShouldPan(e)
     THEN [u EXCEPT !.isPanning = TRUE, !.lastPanPoint = e.pos]
     ELSE IF e.button # 0 THEN u
     ELSE IF handle # None
     THEN [u EXCEPT !.isResizingText = TRUE, !.textResizeHandle = handle,
                    !.textResizeStartMouse = e.pos,
                    !.originalFontSize = Val(FindShape(shapes, OnlySelected)).fontSize]
     ELSE LET finished ==
                IF editingText # None /\ selectedTool # "text"
                THEN [FinishAndCommit(u, canvas = "hooks")
                        EXCEPT !.selectedTool = "select"]
                ELSE u
          IN CASE selectedTool = "text" ->
                    LET newText == CreateText(nextId, canvasPoint.x, canvasPoint.y)
                        newShapes == Append(shapes, newText)
                        placed == AddToHistory(
                                    [finished EXCEPT !.shapes = newShapes,
                                                     !.nextId = @ + 1],
                                    newShapes)
                    IN [StartEditing(placed, newText, 0)
                          EXCEPT !.selectedShapes = {newText.id},
                                 !.selectedTool = "select"]
               [] selectedTool = "pencil" ->
                    [finished EXCEPT !.isDrawing = TRUE,
                                     !.currentPencilPoints = <<canvasPoint>>]
               [] selectedTool \in {"rectangle", "circle", "line", "arrow"} ->
                    [finished EXCEPT !.isDrawing = TRUE, !.drawStart = e.pos,
                                     !.drawEnd = e.pos]
               [] selectedTool = "select" -> SelectModeDown(finished, e)
               [] OTHER ->
                    [finished EXCEPT !.isSelecting = TRUE,
                                     !.selectionStart = e.pos,
                                     !.selectionEnd = e.pos]

\* updatePan that does not record the point it has panned to
updatePanFromStart(u, point) ==
  IF ~isPanning THEN u
  ELSE [u EXCEPT !.offset = Pt(@.x + point.x - lastPanPoint.x,
                               @.y + point.y - lastPanPoint.y)]

\* updatePan(point): the offset moves by the distance from the last point,
\* which becomes the point
updatePan(u, point) ==
  IF ~isPanning THEN u
  ELSE [u EXCEPT !.offset = Pt(@.x + point.x - lastPanPoint.x,
                               @.y + point.y - lastPanPoint.y),
                 !.lastPanPoint = point]

\* handleMouseMove(e)
HandleMouseMove(e) ==
  LET u == St
      canvasPoint == ScreenToCanvas(e.pos)
      selectedShape == FindShape(shapes, OnlySelected)
      deltaX == e.pos.x - textResizeStartMouse.x
      deltaY == e.pos.y - textResizeStartMouse.y
  IN IF isPanning
     THEN updatePan(u, e.pos)
     ELSE IF isResizingText /\ textResizeHandle # None
             /\ Cardinality(selectedShapes) = 1
     THEN IF selectedShape # None /\ Val(selectedShape).type = "text"
          THEN LET updatedText ==
                     [Val(selectedShape) EXCEPT !.fontSize =
                        ResizedFontSize(originalFontSize,
                          deltaX * deltaX + deltaY * deltaY,
                          DragsInwards(Val(textResizeHandle), deltaX, deltaY))]
               IN [u EXCEPT !.shapes = ReplaceShape(@, OnlySelected, updatedText)]
          ELSE u
     ELSE IF isDrawing /\ selectedTool = "pencil"
     THEN [u EXCEPT !.currentPencilPoints = Append(@, canvasPoint)]
     ELSE IF isDrawing
     THEN [u EXCEPT !.drawEnd = e.pos]
     ELSE IF isSelecting
     THEN [u EXCEPT !.selectionEnd = e.pos]
     ELSE u

\* finishDrawing accepting a stroke of a single point
FinishDrawingAnyStroke ==
  LET canvasStart == ScreenToCanvas(drawStart)
      canvasEnd == ScreenToCanvas(drawEnd)
  IN IF selectedTool = "pencil"
     THEN (IF Len(currentPencilPoints) > 0
           THEN Some(CreatePencil(nextId, currentPencilPoints)) ELSE None)
     ELSE IF \/ selectedTool \in {"line", "arrow"}
             \/ /\ selectedTool \in {"rectangle", "circle"}
                /\ Abs(canvasEnd.x - canvasStart.x) > MinDrawSize
                /\ Abs(canvasEnd.y - canvasStart.y) > MinDrawSize
     THEN Some([CreateLine(nextId, canvasStart.x, canvasStart.y,
                           canvasEnd.x, canvasEnd.y)
                  EXCEPT !.type = selectedTool])
     ELSE None

\* finishDrawing with the minimum size asked of one axis only
FinishDrawingEitherAxis ==
  LET canvasStart == ScreenToCanvas(drawStart)
      canvasEnd == ScreenToCanvas(drawEnd)
  IN IF selectedTool = "pencil"
     THEN (IF Len(currentPencilPoints) > 1
           THEN Some(CreatePencil(nextId, currentPencilPoints)) ELSE None)
     ELSE IF \/ selectedTool \in {"line", "arrow"}
             \/ /\ selectedTool \in {"rectangle", "circle"}
                /\ \/ Abs(canvasEnd.x - canvasStart.x) > MinDrawSize
                   \/ Abs(canvasEnd.y - canvasStart.y) > MinDrawSize
     THEN Some([CreateLine(nextId, canvasStart.x, canvasStart.y,
                           canvasEnd.x, canvasEnd.y)
                  EXCEPT !.type = selectedTool])
     ELSE None

\* The shape a finished drag creates, if any (finishDrawing, and the
\* "if (isDrawing)" block of the inline handleMouseUp)
FinishDrawing ==
  LET canvasStart == ScreenToCanvas(drawStart)
      canvasEnd == ScreenToCanvas(drawEnd)
      hasSize == \/ selectedTool \in {"line", "arrow"}
                 \/ /\ Abs(canvasEnd.x - canvasStart.x) > MinDrawSize
                    /\ Abs(canvasEnd.y - canvasStart.y) > MinDrawSize
  IN IF selectedTool = "pencil"
     THEN (IF Len(currentPencilPoints) > 1
           THEN Some(CreatePencil(nextId, currentPencilPoints)) ELSE None)
     ELSE IF selectedTool # "text" /\ hasSize
     THEN CASE selectedTool = "rectangle" ->
                 Some(CreateRectangle(nextId, canvasStart.x, canvasStart.y,
                                      canvasEnd.x, canvasEnd.y))
            [] selectedTool = "circle" ->
                 Some(CreateCircle(nextId, canvasStart.x, canvasStart.y,
                                   canvasEnd.x, canvasEnd.y))
            [] selectedTool = "line" ->
                 Some(CreateLine(nextId, canvasStart.x, canvasStart.y,
                                 canvasEnd.x, canvasEnd.y))
            [] selectedTool = "arrow" ->
                 Some(CreateArrow(nextId, canvasStart.x, canvasStart.y,
                                  canvasEnd.x, canvasEnd.y))
            [] OTHER -> None
     ELSE None

\* handleMouseUp ending a text resize without committing the scene
HandleMouseUpNoResizeCommit(kind) ==
  LET u == [St EXCEPT !.lastOp = Op(kind, "none")]
  IN IF isResizingText /\ Cardinality(selectedShapes) = 1
     THEN [u EXCEPT !.isResizingText = FALSE, !.textResizeHandle = None,
                    !.textResizeStartMouse = Origin,
                    !.originalFontSize = DefaultFontSize]
     ELSE [u EXCEPT !.isPanning = FALSE, !.isSelecting = FALSE,
                    !.isDrawing = FALSE, !.currentPencilPoints = <<>>]

\* handleMouseUp(), bound to the canvas's mouseup and mouseleave: kind names
\* the event that called it
HandleMouseUp(kind) ==
  LET u == [St EXCEPT !.lastOp = Op(kind, "none")]
      newShape == FinishDrawing
  IN IF isResizingText /\ Cardinality(selectedShapes) = 1
     THEN LET committed ==
                IF canvas = "hooks" \/ FindShape(shapes, OnlySelected) # None
                THEN AddToHistory(u, shapes) ELSE u
          IN [committed EXCEPT !.isResizingText = FALSE,
                               !.textResizeHandle = None,
                               !.textResizeStartMouse = Origin,
                               !.originalFontSize = DefaultFontSize]
     ELSE LET marquee == IF isSelecting /\ selectedTool = "select"
                         THEN FinishSelection(u)
                         ELSE u
              drawn == IF isDrawing /\ newShape # None
                       THEN LET newShapes == Append(shapes, Val(newShape))
                            IN [AddToHistory(
                                  [marquee EXCEPT !.shapes = newShapes,
                                                  !.nextId = @ + 1],
                                  newShapes)
                                  EXCEPT !.selectedTool = "select"]
                       ELSE marquee
          IN [drawn EXCEPT !.isPanning = FALSE, !.isSelecting = FALSE,
                           !.isDrawing = FALSE, !.currentPencilPoints = <<>>]

\* A click on a TopToolBar button: the active tool's button goes back to
\* "select"; App.handleToolSelect stores the tool.
HandleToolSelect(button) ==
  [St EXCEPT
     !.selectedTool = IF button # "select" /\ selectedTool = button
                      THEN "select" ELSE button]

----------------------------------------------------------------------------
(* Inputs of the explored state space *)

\* Pointer positions.  A text is placed at PointA, which is then on the text
\* and on its north-west resize handle; PointB is on the first line of that
\* text once a line is at least one character wide, clear of every handle,
\* and off the text while it is empty.
PointA == Pt(100, 100)
PointB == Pt(108, 106)

\* Where the text tool is clicked
PlacePoints == {PointA}

\* Date.now() at a click: a click on the text clicked last, at the same
\* instant, is a double click.
Times == {1000}

TextsOf(u) ==
  {u.shapes[i].text : i \in {k \in 1..Len(u.shapes) : u.shapes[k].type = "text"}}
  \cup (IF u.editingText = None THEN {} ELSE {Val(u.editingText).text})

\* The queued state stays inside the explored bounds.  The code keeps the
\* history within HistoryCap, so a maxHistory above it restricts nothing.
Bounded(u, maxShapes, maxHistory) ==
  /\ Len(u.shapes) <= maxShapes
  /\ u.nextId <= maxShapes + 1
  /\ Len(u.history) <= maxHistory
  /\ \A t \in TextsOf(u) : Len(t) <= MaxTextLen
  /\ Abs(u.offset.x) <= MaxPan /\ Abs(u.offset.y) <= MaxPan
  /\ Len(u.currentPencilPoints) <= MaxPencilPoints

PlainKey(k) == [key |-> k, mod |-> FALSE, shiftKey |-> FALSE]

UndoKey == [key |-> "z", mod |-> TRUE, shiftKey |-> FALSE]
RedoKey == [key |-> "z", mod |-> TRUE, shiftKey |-> TRUE]

\* Keys of the history specification: Escape, undo and redo
KeyEvents == {PlainKey("Escape"), UndoKey, RedoKey}

\* Keys of the text specification: typing, deleting, the caret keys with
\* and without shift, select all, Escape.  (Tab inserts TabSpaces spaces,
\* more than MaxTextLen.)
ArrowKeys == {"ArrowLeft", "ArrowRight", "ArrowUp", "ArrowDown"}
EditKeys == {"a", "Enter", "Backspace", "Delete"}
TextKeyEvents ==
  {PlainKey(k) : k \in EditKeys \cup {"Escape"}}
  \cup {[key |-> k, mod |-> FALSE, shiftKey |-> s] : k \in ArrowKeys, s \in BOOLEAN}
  \cup {[key |-> "a", mod |-> TRUE, shiftKey |-> FALSE]}

MouseDownEvents(points) ==
  {[pos |-> p, button |-> 0, mod |-> FALSE, shiftKey |-> FALSE, time |-> t] :
     p \in points, t \in Times}

\* Pointer-downs of the left (0) and the middle (1) button
ButtonDownEvents(points, buttons) ==
  {[pos |-> p, button |-> b, mod |-> FALSE, shiftKey |-> FALSE, time |-> t] :
     p \in points, b \in buttons, t \in Times}

\* PointC is clear of a text placed at PointA and of its handles; the drag
\* from PointA to PointC is longer than MinDrawSize and MinMarquee in both
\* axes.
PointC == Pt(130, 130)
GesturePoints == {PointA, PointC}
GestureTools == {"select", "rectangle", "text"}

ToolButtons == {"select", "text"}

----------------------------------------------------------------------------
(* The editor as a state machine *)

Init ==
  /\ canvas \in {"hooks", "inline"}
  /\ selectedTool = "select"
  /\ shapes = <<>>
  /\ history = <<<<>>>>
  /\ historyIndex = 0
  /\ editingText = None
  /\ textCursorPosition = 0
  /\ textSelectionStart = None
  /\ textSelectionEnd = None
  /\ lastClickTime = 0
  /\ lastClickedTextId = None
  /\ selectedShapes = {}
  /\ isPanning = FALSE
  /\ lastPanPoint = Origin
  /\ offset = Origin
  /\ scale = 1
  /\ isDrawing = FALSE
  /\ drawStart = Origin
  /\ drawEnd = Origin
  /\ currentPencilPoints = <<>>
  /\ isSelecting = FALSE
  /\ selectionStart = Origin
  /\ selectionEnd = Origin
  /\ isResizingText = FALSE
  /\ textResizeHandle = None
  /\ textResizeStartMouse = Origin
  /\ originalFontSize = DefaultFontSize
  /\ nextId = 1
  /\ lastOp = Op("other", "none")
  /\ lastCommits = 0
  /\ trip = [phase |-> "commits", scenes |-> <<<<>>>>, k |-> 0]
  /\ lastDiscarded = 0
  /\ heldButtons = {}

\* One keydown event, handled
KeyDownOf(events, maxShapes, maxHistory) ==
  \E e \in events :
    \E u \in {HandleKeyDown(e)} :
       Bounded(u, maxShapes, maxHistory) /\ Apply(u)

\* One mousedown event, handled; the clock does not run backwards
MouseDownOf(events, maxShapes, maxHistory) ==
  \E e \in events :
    /\ e.time >= lastClickTime
    /\ selectedTool = "text" => e.pos \in PlacePoints
    /\ \E u \in {HandleMouseDown(e)} :
          Bounded(u, maxShapes, maxHistory) /\ Apply(u)

\* One mousemove event, handled
MouseMoveOf(points, maxShapes, maxHistory) ==
  \E p \in points :
    \E u \in {HandleMouseMove([pos |-> p])} :
       Bounded(u, maxShapes, maxHistory) /\ Apply(u)

\* One mouseup or mouseleave event, handled
MouseUpOf(kind, maxShapes, maxHistory) ==
  \E u \in {HandleMouseUp(kind)} :
     Bounded(u, maxShapes, maxHistory) /\ Apply(u)

ToolSelectOf(buttons, maxShapes, maxHistory) ==
  \E button \in buttons :
    \E u \in {HandleToolSelect(button)} :
       Bounded(u, maxShapes, maxHistory) /\ Apply(u)

(* The history specification: up to MaxShapes texts are placed, clicked,   *)
(* left with Escape or by a click, and resized in place; undo and redo.    *)
(* A click is its mousedown; the mouseup of a click that started no        *)
(* session changes nothing, and the held buttons are not tracked.          *)

KeyDown ==
  KeyDownOf(KeyEvents, MaxShapes, HistoryCap + 1) /\ UNCHANGED heldButtons

MouseDown ==
  /\ MouseDownOf(MouseDownEvents({PointA}), MaxShapes, HistoryCap + 1)
  /\ UNCHANGED heldButtons

MouseUp ==
  MouseUpOf("mouseup", MaxShapes, HistoryCap + 1) /\ UNCHANGED heldButtons

ToolSelect ==
  ToolSelectOf(ToolButtons, MaxShapes, HistoryCap + 1) /\ UNCHANGED heldButtons

Next == KeyDown \/ MouseDown \/ MouseUp \/ ToolSelect

Spec == Init /\ [][Next]_vars

(* The text specification: one text is placed, typed into, left and        *)
(* entered again.                                                          *)

TextKeyDown ==
  /\ KeyDownOf(TextKeyEvents, MaxEditedTexts, MaxTextHistory)
  /\ UNCHANGED heldButtons

TextMouseDown ==
  /\ MouseDownOf(MouseDownEvents({PointA, PointB}), MaxEditedTexts, MaxTextHistory)
  /\ UNCHANGED heldButtons

TextToolSelect ==
  /\ ToolSelectOf(ToolButtons, MaxEditedTexts, MaxTextHistory)
  /\ UNCHANGED heldButtons

NextText == TextKeyDown \/ TextMouseDown \/ TextToolSelect

SpecText == Init /\ [][NextText]_vars

(* The gesture specification: pointer-downs and pointer-ups of two          *)
(* buttons, moves and leaves, with Escape and tool changes between them;    *)
(* texts are placed and rectangles drawn.                                   *)

\* A button goes down only when it is up; any button may come up, also one
\* pressed outside the canvas; what happens to the buttons after the pointer
\* left is not seen, so every button may go down again.
GestureMouseDown ==
  \E e \in ButtonDownEvents(GesturePoints, {0, 1}) :
    /\ e.button \notin heldButtons
    /\ heldButtons' = heldButtons \cup {e.button}
    /\ MouseDownOf({e}, MaxShapes, MaxGestureHistory)

GestureMouseMove ==
  MouseMoveOf(GesturePoints, MaxShapes, MaxGestureHistory) /\ UNCHANGED heldButtons

GestureMouseUp ==
  \E b \in {0, 1} :
    /\ heldButtons' = heldButtons \ {b}
    /\ MouseUpOf("mouseup", MaxShapes, MaxGestureHistory)

GestureMouseLeave ==
  MouseUpOf("mouseleave", MaxShapes, MaxGestureHistory) /\ heldButtons' = {}

GestureKeyDown ==
  /\ KeyDownOf({PlainKey("Escape")}, MaxShapes, MaxGestureHistory)
  /\ UNCHANGED heldButtons

GestureToolSelect ==
  /\ ToolSelectOf(GestureTools, MaxShapes, MaxGestureHistory)
  /\ UNCHANGED heldButtons

NextGesture ==
  \/ GestureMouseDown \/ GestureMouseMove \/ GestureMouseUp
  \/ GestureMouseLeave \/ GestureKeyDown \/ GestureToolSelect

SpecGesture == Init /\ [][NextGesture]_vars

(* The marquee specification.  It starts from a scene that was drawn and    *)
(* possibly panned: a rectangle dragged from (100,100) to (130,130), a text *)
(* of two lines (Enter, "a") placed at (100,100) and left with Escape, both *)
(* in either order, or a short line from (94,94) to (95,95).  The left      *)
(* button then clicks and drags between the points below.                   *)

BuiltShape(kind, id) ==
  CASE kind = "rectangle" -> CreateRectangle(id, 100, 100, 130, 130)
    [] kind = "line" -> CreateLine(id, 94, 94, 95, 95)
    [] kind = "text" ->
         FinishEditingShape(UpdateText(CreateText(id, 100, 100), <<NL, "a">>))

RECURSIVE BuiltScene(_)
BuiltScene(kinds) ==
  IF kinds = <<>> THEN <<>>
  ELSE Append(BuiltScene(SubSeq(kinds, 1, Len(kinds) - 1)),
              BuiltShape(kinds[Len(kinds)], Len(kinds)))

\* The commits of the build: one per drawn shape, two per text (placed,
\* then left)
RECURSIVE BuiltHistory(_)
BuiltHistory(kinds) ==
  IF kinds = <<>> THEN <<<<>>>>
  ELSE LET n == Len(kinds)
           before == SubSeq(kinds, 1, n - 1)
       IN IF kinds[n] = "text"
          THEN BuiltHistory(before)
                 \o <<Append(BuiltScene(before), CreateText(n, 100, 100)),
                      BuiltScene(kinds)>>
          ELSE Append(BuiltHistory(before), BuiltScene(kinds))

MarqueeBuilds ==
  {<<"rectangle">>, <<"text", "rectangle">>, <<"rectangle", "text">>, <<"line">>}

\* Pan offsets: none, or the middle button dragged from (90,90) to (100,100)
MarqueeOffsets == {Origin, Pt(10, 10)}

\* Pointer positions: off every shape, MinMarquee away from it on both axes,
\* on the rectangle and the text, right of the text between its first and
\* its second line, and beyond the rectangle and the text.
MarqueePoints == {Pt(90, 90), Pt(95, 95), PointA, Pt(140, 117), Pt(140, 140)}

\* The state after the shapes of kinds were drawn and the view panned by off
InitBuilt(kinds, off) ==
  /\ canvas \in {"hooks", "inline"}
  /\ selectedTool = "select"
  /\ shapes = BuiltScene(kinds)
  /\ history = BuiltHistory(kinds)
  /\ historyIndex = Len(BuiltHistory(kinds)) - 1
  /\ editingText = None
  /\ textCursorPosition = 0
  /\ textSelectionStart = None
  /\ textSelectionEnd = None
  /\ lastClickTime = 0
  /\ lastClickedTextId = None
  /\ selectedShapes = {}
  /\ isPanning = FALSE
  /\ lastPanPoint = (IF off = Origin THEN Origin ELSE PointA)
  /\ offset = off
  /\ scale = 1
  /\ isDrawing = FALSE
  /\ drawStart = (IF "line" \in {kinds[i] : i \in 1..Len(kinds)}
                  THEN Pt(94, 94) ELSE PointA)
  /\ drawEnd = (IF "line" \in {kinds[i] : i \in 1..Len(kinds)}
                THEN Pt(95, 95) ELSE PointC)
  /\ currentPencilPoints = <<>>
  /\ isSelecting = FALSE
  /\ selectionStart = Origin
  /\ selectionEnd = Origin
  /\ isResizingText = FALSE
  /\ textResizeHandle = None
  /\ textResizeStartMouse = Origin
  /\ originalFontSize = DefaultFontSize
  /\ nextId = Len(kinds) + 1
  /\ lastOp = Op("other", "none")
  /\ lastCommits = 0
  /\ trip = [phase |-> "commits", scenes |-> BuiltHistory(kinds), k |-> 0]
  /\ lastDiscarded = 0
  /\ heldButtons = {}

InitMarquee ==
  \E kinds \in MarqueeBuilds, off \in MarqueeOffsets : InitBuilt(kinds, off)

\* The marquee specification follows the events that leave the built scene
\* and its history as they are: clicks, marquee drags, resize gestures that
\* do not move.
SceneKept == UNCHANGED <<shapes, history>>

MarqueeMouseDown ==
  \E e \in ButtonDownEvents(MarqueePoints, {0}) :
    /\ e.button \notin heldButtons
    /\ heldButtons' = heldButtons \cup {e.button}
    /\ MouseDownOf({e}, MaxShapes, HistoryCap)
    /\ SceneKept

MarqueeMouseMove ==
  /\ MouseMoveOf(MarqueePoints, MaxShapes, HistoryCap)
  /\ UNCHANGED heldButtons
  /\ SceneKept

MarqueeMouseUp ==
  MouseUpOf("mouseup", MaxShapes, HistoryCap) /\ heldButtons' = {} /\ SceneKept

MarqueeMouseLeave ==
  /\ MouseUpOf("mouseleave", MaxShapes, HistoryCap)
  /\ heldButtons' = {}
  /\ SceneKept

NextMarquee ==
  MarqueeMouseDown \/ MarqueeMouseMove \/ MarqueeMouseUp \/ MarqueeMouseLeave

SpecMarquee == InitMarquee /\ [][NextMarquee]_vars

(* The click specification.  The scene holds two texts "a", T1 placed at    *)
(* (100,100) and T2 at (100,200), each left with Escape.  The left button   *)
(* clicks, with and without shift, at the times below; Escape leaves the    *)
(* edit mode.  The pointer does not move while a button is held.            *)
ClickText(id, y) ==
  FinishEditingShape(UpdateText(CreateText(id, 100, y), <<"a">>))

ClickScene == <<ClickText(1, 100), ClickText(2, 200)>>

ClickHistory ==
  <<<<>>,
    <<CreateText(1, 100, 100)>>,
    <<ClickText(1, 100)>>,
    <<ClickText(1, 100), CreateText(2, 100, 200)>>,
    ClickScene>>

\* On T1 and on its north-west handle; on T1 and on T2, clear of the
\* handles; off both texts.
ClickPoints == {PointA, PointB, Pt(108, 206), Pt(90, 150)}

\* Clicks 0, 99, 100, 300, 399, 400 and 500 ms apart
ClickTimes == {1000, 1300, 1399, 1400, 1500}

ClickEvents ==
  {[pos |-> p, button |-> 0, mod |-> FALSE, shiftKey |-> s, time |-> t] :
     p \in ClickPoints, s \in BOOLEAN, t \in ClickTimes}

InitClicks ==
  /\ canvas \in {"hooks", "inline"}
  /\ selectedTool = "select"
  /\ shapes = ClickScene
  /\ history = ClickHistory
  /\ historyIndex = Len(ClickHistory) - 1
  /\ editingText = None
  /\ textCursorPosition = 0
  /\ textSelectionStart = None
  /\ textSelectionEnd = None
  /\ lastClickTime = 0
  /\ lastClickedTextId = None
  /\ selectedShapes = {}
  /\ isPanning = FALSE
  /\ lastPanPoint = Origin
  /\ offset = Origin
  /\ scale = 1
  /\ isDrawing = FALSE
  /\ drawStart = Origin
  /\ drawEnd = Origin
  /\ currentPencilPoints = <<>>
  /\ isSelecting = FALSE
  /\ selectionStart = Origin
  /\ selectionEnd = Origin
  /\ isResizingText = FALSE
  /\ textResizeHandle = None
  /\ textResizeStartMouse = Origin
  /\ originalFontSize = DefaultFontSize
  /\ nextId = Len(ClickScene) + 1
  /\ lastOp = Op("other", "none")
  /\ lastCommits = 0
  /\ trip = [phase |-> "commits", scenes |-> ClickHistory, k |-> 0]
  /\ lastDiscarded = 0
  /\ heldButtons = {}

ClickMouseDown ==
  \E e \in ClickEvents :
    /\ e.button \notin heldButtons
    /\ heldButtons' = heldButtons \cup {e.button}
    /\ MouseDownOf({e}, MaxShapes, HistoryCap)

ClickMouseUp ==
  /\ heldButtons # {}
  /\ heldButtons' = {}
  /\ MouseUpOf("mouseup", MaxShapes, HistoryCap)

ClickKeyDown ==
  /\ KeyDownOf({PlainKey("Escape")}, MaxShapes, HistoryCap)
  /\ UNCHANGED heldButtons

NextClicks == ClickMouseDown \/ ClickMouseUp \/ ClickKeyDown

SpecClicks == InitClicks /\ [][NextClicks]_vars

(* The drawing specification: a draw tool of the toolbar is picked, the     *)
(* left button goes down with it, drags and is released (or the pointer     *)
(* leaves the canvas) between points 0, 5 and 6 pixels apart per axis;      *)
(* Escape is pressed at any time.  A toolbar button is clicked with no      *)
(* button held.  The scene starts empty and MaxDrawnShapes shapes are drawn.*)
DrawTools == {"rectangle", "circle", "line", "arrow", "pencil"}

\* From PointA: 5 pixels in x and 6 in y, and 6 pixels in both
DrawPoints == {PointA, Pt(105, 106), Pt(106, 106)}

DrawMouseDown ==
  \E e \in ButtonDownEvents(DrawPoints, {0}) :
    /\ selectedTool \in DrawTools
    /\ e.button \notin heldButtons
    /\ heldButtons' = heldButtons \cup {e.button}
    /\ MouseDownOf({e}, MaxDrawnShapes, MaxDrawnShapes + 1)

DrawMouseMove ==
  /\ MouseMoveOf(DrawPoints, MaxDrawnShapes, MaxDrawnShapes + 1)
  /\ UNCHANGED heldButtons

DrawMouseUp ==
  /\ heldButtons # {}
  /\ heldButtons' = {}
  /\ MouseUpOf("mouseup", MaxDrawnShapes, MaxDrawnShapes + 1)

DrawMouseLeave ==
  /\ MouseUpOf("mouseleave", MaxDrawnShapes, MaxDrawnShapes + 1)
  /\ heldButtons' = {}

DrawKeyDown ==
  /\ KeyDownOf({PlainKey("Escape")}, MaxDrawnShapes, MaxDrawnShapes + 1)
  /\ UNCHANGED heldButtons

DrawToolSelect ==
  /\ heldButtons = {}
  /\ ToolSelectOf(DrawTools, MaxDrawnShapes, MaxDrawnShapes + 1)
  /\ UNCHANGED heldButtons

NextDraw ==
  \/ DrawMouseDown \/ DrawMouseMove \/ DrawMouseUp \/ DrawMouseLeave
  \/ DrawKeyDown \/ DrawToolSelect

SpecDraw == Init /\ [][NextDraw]_vars

(* The resize specification.  On the scene of the click specification the  *)
(* left button goes down on the text T1, on its north-west handle and off   *)
(* it, drags between these points (inwards: the text shrinks) and is        *)
(* released, or the pointer leaves the canvas.  Font sizes stay at or above *)
(* MinExploredFontSize.                                                     *)

\* The north-west handle of T1 (and T1 itself), T1 clear of the handles, and
\* a point off the texts and their handles.
ResizePoints == {PointA, PointB, PointC}

ResizeBounded ==
  \A i \in 1..Len(shapes) :
    shapes[i].type = "text" => shapes[i].fontSize >= MinExploredFontSize

ResizeMouseDown ==
  \E e \in ButtonDownEvents(ResizePoints, {0}) :
    /\ e.button \notin heldButtons
    /\ heldButtons' = heldButtons \cup {e.button}
    /\ MouseDownOf({e}, MaxShapes, HistoryCap)

ResizeMouseMove ==
  /\ MouseMoveOf(ResizePoints, MaxShapes, HistoryCap)
  /\ UNCHANGED heldButtons
  /\ ResizeBounded'

ResizeMouseUp ==
  /\ heldButtons # {}
  /\ heldButtons' = {}
  /\ MouseUpOf("mouseup", MaxShapes, HistoryCap)

ResizeMouseLeave ==
  /\ MouseUpOf("mouseleave", MaxShapes, HistoryCap)
  /\ heldButtons' = {}

NextResize ==
  ResizeMouseDown \/ ResizeMouseMove \/ ResizeMouseUp \/ ResizeMouseLeave

SpecResize == InitClicks /\ [][NextResize]_vars

(* The id specification.  A shape id is a type prefix, Date.now() and nine  *)
(* characters of Math.random(): nothing in the code compares it with the    *)
(* ids in use.  The specifications above take the generator to return an    *)
(* unused id each time (nextId counts up); here its next value is any id.   *)
(* Texts are placed, typed into, left and clicked (on the text and on its   *)
(* resize handle, the pointer released where it went down) on the canvas    *)
(* built on the hooks, and the scene is undone and redone.                  *)

IdKeyEvents == {PlainKey("a"), PlainKey("Escape"), UndoKey, RedoKey}

\* The generator's next value changes (time passes, Math.random advances);
\* followed while a tool that creates shapes is active.
IdDraw ==
  \E id \in (1..MaxShapes) \ {nextId} :
    /\ selectedTool # "select"
    /\ \E u \in {[St EXCEPT !.nextId = id, !.lastOp = lastOp,
                            !.lastCommits = lastCommits,
                            !.lastDiscarded = lastDiscarded]} : Apply(u)
    /\ UNCHANGED heldButtons

\* The texts followed by the id specification
IdBounded == \A t \in TextsOf(St) : Len(t) <= MaxIdTextLen

IdKeyDown ==
  /\ KeyDownOf(IdKeyEvents, MaxShapes, MaxGestureHistory)
  /\ UNCHANGED heldButtons
  /\ IdBounded'

IdMouseDown ==
  /\ MouseDownOf(MouseDownEvents({PointA}), MaxShapes, MaxGestureHistory)
  /\ UNCHANGED heldButtons

IdMouseUp ==
  MouseUpOf("mouseup", MaxShapes, MaxGestureHistory) /\ UNCHANGED heldButtons

IdToolSelect ==
  ToolSelectOf(ToolButtons, MaxShapes, MaxGestureHistory) /\ UNCHANGED heldButtons

NextIds ==
  \/ IdDraw \/ IdKeyDown \/ IdMouseDown \/ IdMouseUp \/ IdToolSelect

\* The canvas built on the hooks, as constructed
InitIds == Init /\ canvas = "hooks"

SpecIds == InitIds /\ [][NextIds]_vars

----------------------------------------------------------------------------
(* Properties of the undo / redo history *)

\* C1: the current index always points at a stored snapshot:
\* 0 <= historyIndex < history.length in every reachable state.
IndexInRange == 0 <= historyIndex /\ historyIndex < Len(history)

\* the index after one handler committed twice
IndexPastTheEnd == lastCommits = 2 /\ historyIndex = Len(history)

\* C2: every step that leaves edit mode clears the isEditing flag of the
\* edited shape in the scene and commits exactly once.
ExitCommitsOnce ==
  [][(editingText # None /\ editingText' = None) =>
       /\ \A i \in 1..Len(shapes') :
            shapes'[i].id = Val(editingText).id => ~shapes'[i].isEditing
       /\ lastCommits' = 1]_vars

\* an exit that committed twice
ExitCommittedTwice == editingText = None /\ lastCommits = 2

\* C3: right after a handler committed a scene, the snapshot at the current
\* index is that scene (every commit comes with setShapes of the same
\* scene, or commits the rendered scene).
SnapshotAtIndexIsScene ==
  lastCommits > 0 =>
    /\ historyIndex < Len(history)
    /\ history[historyIndex + 1] = shapes

\* The step is the handling of key event e
KeyStep(e) == \E u \in {HandleKeyDown(e)} : Apply(u)

\* C4: a commit made while the index is below the last snapshot keeps the
\* snapshots up to the index, drops the ones beyond it and appends the
\* scene; the index is then at the end, so there is nothing to redo.
RedoTailDiscarded ==
  [][(lastCommits' > 0 /\ historyIndex < Len(history) - 1) =>
       /\ history' = Append(SubSeq(history, 1, historyIndex + 1), shapes')
       /\ historyIndex' >= Len(history') - 1]_vars

\* a commit has just dropped snapshots beyond the index
TailWasDiscarded ==
  lastCommits > 0 /\ lastDiscarded > 0 /\ historyIndex >= Len(history) - 1

\* C5: after N < cap commits, the k-th of N successive undos shows the
\* scene of commit N - k (the initial scene for k = N), and the k-th of the
\* N redos that follow shows the scene of commit k.
RoundTripReturns ==
  /\ trip.phase = "undos" =>
       shapes = trip.scenes[TripCommits(trip) + 1 - trip.k]
  /\ trip.phase = "redos" => shapes = trip.scenes[trip.k + 1]

\* C6: undo at index 0, and redo at the last snapshot, find nothing to do
\* and leave history, index and scene as they are.
BoundaryNoOps ==
  [][/\ (historyIndex = 0 /\ KeyStep(UndoKey)) =>
          /\ lastOp' = Op("undo", "nothing")
          /\ UNCHANGED <<history, historyIndex, shapes>>
     /\ (historyIndex = Len(history) - 1 /\ KeyStep(RedoKey)) =>
          /\ lastOp' = Op("redo", "nothing")
          /\ UNCHANGED <<history, historyIndex, shapes>>]_vars

\* an undo at index 0 of a history that has more than the initial snapshot
UndoAtStart ==
  lastOp = Op("undo", "nothing") /\ historyIndex = 0 /\ Len(history) > 1

\* C7: the history never holds more than the cap; once more commits than
\* the cap were made from the initial history, the initial snapshot is no
\* longer in the history, so no number of undos shows it.
CapAndEviction ==
  /\ Len(history) <= HistoryCap
  /\ (trip.phase = "commits" /\ TripCommits(trip) > HistoryCap) =>
       \A i \in 1..Len(history) : history[i] # trip.scenes[1]

\* more commits than the cap were made from the initial history
MoreCommitsThanCap ==
  /\ trip.phase = "commits" /\ TripCommits(trip) > HistoryCap
  /\ Len(history) = HistoryCap

----------------------------------------------------------------------------
(* Properties of text editing *)

\* C8: a key handled by the text editor leaves the history (snapshots and
\* index) as it is, and with it everything but the scene, the edited text
\* and the caret / selection state.
TextKeysKeepHistory ==
  [][lastOp'.op = "key" =>
       /\ editingText # None
       /\ UNCHANGED <<history, historyIndex>>
       /\ UNCHANGED <<selectedTool, selectedShapes, nextId, lastClickTime,
                      lastClickedTextId, offset, scale, isPanning, isDrawing,
                      isSelecting, isResizingText>>]_vars

\* a key has changed the edited text, with commits in the history
TextKeyTyped ==
  /\ lastOp.op = "key" /\ editingText # None
  /\ Val(editingText).text # <<>>
  /\ Len(history) > 1

\* C9: while a text is edited, the caret is an index into its text:
\* 0 <= textCursorPosition <= length of the text.
CaretInText ==
  editingText # None =>
    /\ 0 <= textCursorPosition
    /\ textCursorPosition <= Len(Val(editingText).text)

\* C10: ArrowDown without shift, caret at column c of line i: on the last
\* line the caret stays; otherwise it moves to column min(c, length of line
\* i + 1) of line i + 1, as an index into the whole text.
ArrowDownMovesDown ==
  [][(/\ editingText # None
      /\ CaretInText
      /\ KeyStep(PlainKey("ArrowDown"))) =>
       LET text == Val(editingText).text
           caret == textCursorPosition
           breaksBefore == {j \in 1..caret : text[j] = NL}
           breaksAfter == {j \in (caret + 1)..Len(text) : text[j] = NL}
           c == caret - (IF breaksBefore = {} THEN 0
                         ELSE CHOOSE j \in breaksBefore :
                                \A k \in breaksBefore : k <= j)
           nextStart == CHOOSE j \in breaksAfter : \A k \in breaksAfter : j <= k
           nextLine == SplitLines(text)[Cardinality(breaksBefore) + 2]
       IN textCursorPosition' =
            IF breaksAfter = {} THEN caret
            ELSE nextStart + Min(c, Len(nextLine))]_vars

\* C11: ArrowUp without shift, caret at column c of line i: on the first
\* line the caret stays; otherwise it moves to column min(c, length of line
\* i - 1) of line i - 1, as an index into the whole text.
ArrowUpMovesUp ==
  [][(/\ editingText # None
      /\ 0 <= textCursorPosition
      /\ textCursorPosition <= Len(Val(editingText).text)
      /\ KeyStep(PlainKey("ArrowUp"))) =>
       LET text == Val(editingText).text
           caret == textCursorPosition
           breaksBefore == {j \in 1..caret : text[j] = NL}
           lineStart == CHOOSE j \in breaksBefore : \A k \in breaksBefore : k <= j
           earlier == breaksBefore \ {lineStart}
           prevStart == IF earlier = {} THEN 0
                        ELSE CHOOSE j \in earlier : \A k \in earlier : k <= j
           c == caret - lineStart
       IN textCursorPosition' =
            IF breaksBefore = {} THEN caret
            ELSE prevStart + Min(c, lineStart - 1 - prevStart)]_vars

----------------------------------------------------------------------------
(* Properties of the pointer sessions *)

\* C12: when a drawing session is in progress and the pointer leaves the
\* canvas, or Escape is pressed, no shape is appended to the scene and
\* nothing is committed to the history for the drawn shape (an Escape that
\* also ends a text edit commits that edit).
DrawingCancelDiscards ==
  [][(/\ isDrawing
      /\ lastOp'.op = "mouseleave" \/ KeyStep(PlainKey("Escape"))) =>
       /\ Len(shapes') = Len(shapes)
       /\ editingText = None => UNCHANGED <<shapes, history, historyIndex>>]_vars

\* the pointer has left the canvas during a drag and the shape is in the scene
LeaveCommittedShape ==
  /\ lastOp.op = "mouseleave" /\ lastCommits = 1
  /\ \E i \in 1..Len(shapes) : shapes[i].type = "rectangle"

\* C13: at most one of the four sessions pan, text resize, draw and marquee
\* is active in any reachable state.
AtMostOneSession ==
  Cardinality({f \in {"pan", "resize", "draw", "marquee"} :
                 \/ f = "pan" /\ isPanning
                 \/ f = "resize" /\ isResizingText
                 \/ f = "draw" /\ isDrawing
                 \/ f = "marquee" /\ isSelecting}) <= 1

\* a pan started by the middle button while a left-button drag is drawing
PanDuringDraw == isPanning /\ isDrawing

\* C14: after a pointer-up or a pointer-leave was handled, no session is
\* active.
NoSessionAfterPointerUp ==
  [][lastOp'.op \in {"mouseup", "mouseleave"} =>
       ~isPanning' /\ ~isResizingText' /\ ~isDrawing' /\ ~isSelecting']_vars

\* a session that is still active after the pointer-up
SessionAfterPointerUp ==
  /\ lastOp.op = "mouseup"
  /\ isPanning \/ isResizingText \/ isDrawing \/ isSelecting

----------------------------------------------------------------------------
(* Properties of the selection and of the shape ids *)

\* C15: every id in the selection set is the id of a shape of the scene,
\* in every reachable state.
SelectionInScene ==
  \A id \in selectedShapes : \E i \in 1..Len(shapes) : shapes[i].id = id

\* the selection names a shape that an undo took out of the scene
SelectedShapeUndone ==
  /\ trip.phase = "undos"
  /\ \E id \in selectedShapes : \A i \in 1..Len(shapes) : shapes[i].id # id

\* No two shapes of a scene have the same id
DistinctIds(ss) ==
  \A i, j \in 1..Len(ss) : ss[i].id = ss[j].id => i = j

\* The ids of the scene and of every snapshot
UsedIds ==
  {shapes[i].id : i \in 1..Len(shapes)}
  \cup UNION {{history[k][i].id : i \in 1..Len(history[k])} :
               k \in 1..Len(history)}

AllDistinct ==
  DistinctIds(shapes) /\ \A k \in 1..Len(history) : DistinctIds(history[k])

\* Scenes change by appending a shape, by replacing shapes in place and by
\* undo / redo: the shape at a position keeps its id.
IdsKept ==
  \A i \in 1..Min(Len(shapes), Len(shapes')) : shapes'[i].id = shapes[i].id

\* The step appends a new shape (a longer scene, committed; a redo brings a
\* shape back without a commit)
ShapeCreated == Len(shapes') > Len(shapes) /\ lastCommits' > 0

----------------------------------------------------------------------------
(* Properties of hit testing and of the marquee *)

\* C17: findShapeAtPoint returns the shape of greatest index among those
\* whose hit test accepts the point converted to canvas space, and null
\* exactly when no shape is hit.
TopmostHitFound ==
  \A p \in MarqueePoints :
    LET canvasPoint == ScreenToCanvas(p)
        hits == {i \in 1..Len(shapes) : IsHit(shapes[i], canvasPoint)}
        found == FindShapeAtPoint(p, shapes)
    IN /\ found = None <=> hits = {}
       /\ \A i \in hits :
            (\A j \in hits : j <= i) => found = Some(shapes[i])

\* a click on two overlapping shapes has selected the upper one
ClickedOverlap ==
  /\ Len(shapes) = 2 /\ heldButtons = {0}
  /\ \A i \in 1..2 : IsHit(shapes[i], ScreenToCanvas(PointA))
  /\ selectedShapes = {shapes[2].id}

\* The marquee in canvas space
CanvasMarquee ==
  [x |-> (Min(selectionStart.x, selectionEnd.x) - offset.x) \div scale,
   y |-> (Min(selectionStart.y, selectionEnd.y) - offset.y) \div scale,
   width |-> Abs(selectionEnd.x - selectionStart.x) \div scale,
   height |-> Abs(selectionEnd.y - selectionStart.y) \div scale]

\* The whole extent of the shape lies inside the rectangle m: the box of a
\* rectangle, the two ends of a line, every line of a text (the box that
\* hitTestText accepts; heights are multiplied by 5).
ExtentInside(shape, m) ==
  LET within(minX, minY5, maxX, maxY5) ==
        /\ minX >= m.x /\ maxX <= m.x + m.width
        /\ minY5 >= 5 * m.y /\ maxY5 <= 5 * (m.y + m.height)
  IN CASE shape.type = "rectangle" ->
            within(shape.x, 5 * shape.y, shape.x + shape.width,
                   5 * (shape.y + shape.height))
       [] shape.type = "line" ->
            within(Min(shape.x1, shape.x2), 5 * Min(shape.y1, shape.y2),
                   Max(shape.x1, shape.x2), 5 * Max(shape.y1, shape.y2))
       [] shape.type = "text" ->
            within(shape.x, 5 * shape.y, shape.x + GetTextWidth(shape),
                   5 * shape.y + GetTextHeight5(shape))

\* The drag of the marquee exceeds the minimum distance in an axis
DragExceedsThreshold ==
  \/ Abs(selectionEnd.x - selectionStart.x) > MinMarquee
  \/ Abs(selectionEnd.y - selectionStart.y) > MinMarquee

\* The step handles the pointer-down e
MouseDownStep(e) == \E u \in {HandleMouseDown(e)} : Apply(u)

\* The left button goes down, in select mode, where there is neither a shape
\* nor a resize handle
EmptyCanvasDown(e) ==
  /\ selectedTool = "select" /\ e.button = 0 /\ ~ShouldPan(e)
  /\ ResizeHandleAt(e.pos) = None
  /\ FindShapeAtPoint(e.pos, shapes) = None
  /\ MouseDownStep(e)

\* The marquee is being finished by a pointer-up or a pointer-leave
MarqueeFinished ==
  /\ isSelecting /\ selectedTool = "select"
  /\ ~(isResizingText /\ Cardinality(selectedShapes) = 1)
  /\ lastOp'.op \in {"mouseup", "mouseleave"}

\* C18: a finished marquee drag longer than the threshold selects exactly
\* the shapes whose whole extent lies inside the marquee in canvas space.
MarqueeSelectsContained ==
  [][(MarqueeFinished /\ DragExceedsThreshold) =>
       selectedShapes' =
         {shapes[i].id : i \in {k \in 1..Len(shapes) :
                                  ExtentInside(shapes[k], CanvasMarquee)}}]_vars

\* a finished marquee has selected a text whose second line is outside it
TextSelectedByFirstLine ==
  /\ lastOp.op = "mouseup" /\ selectionEnd = Pt(140, 117)
  /\ \E i \in 1..Len(shapes) :
       /\ shapes[i].type = "text" /\ shapes[i].id \in selectedShapes
       /\ ~ExtentInside(shapes[i], CanvasMarquee)

\* C19: a release within MinMarquee pixels in both axes leaves the selection
\* as it is and ends the marquee; a pointer-down on empty canvas empties the
\* selection and starts the marquee, and the selection stays as it is while
\* the marquee is dragged: so a click-release on empty canvas ends with the
\* selection empty and no marquee active.
SmallDragDeselects ==
  [][/\ (MarqueeFinished /\ ~DragExceedsThreshold) =>
          (selectedShapes' = selectedShapes /\ ~isSelecting')
     /\ \A e \in ButtonDownEvents(MarqueePoints, {0}) :
          EmptyCanvasDown(e) => (selectedShapes' = {} /\ isSelecting')
     /\ (isSelecting /\ isSelecting') => selectedShapes' = selectedShapes
     /\ isSelecting => selectedShapes = {}]_vars

\* a marquee of 5 by 5 pixels around the short line was released
SmallDragReleased ==
  /\ lastOp.op = "mouseup" /\ ~isSelecting /\ selectedShapes = {}
  /\ selectionStart = Pt(90, 90) /\ selectionEnd = Pt(95, 95)
  /\ \E i \in 1..Len(shapes) : ExtentInside(shapes[i], CanvasMarquee)

-----------------------------------------------------------------------------
(* Properties of the double click *)

\* The step handles e, a left click without shift, in select mode, on a text
TextClicked(e) ==
  /\ selectedTool = "select" /\ e.button = 0 /\ ~e.shiftKey /\ ~ShouldPan(e)
  /\ FindShapeAtPoint(e.pos, shapes) # None
  /\ Val(FindShapeAtPoint(e.pos, shapes)).type = "text"
  /\ MouseDownStep(e)

\* After the click on the text of this id: it is being edited; it is only
\* selected
EntersEditMode(id) == editingText' # None /\ Val(editingText').id = id
OnlySelects(id) == editingText' = None /\ selectedShapes' = {id}

\* The click on the text of this id comes less than DoubleClickMs after the
\* recorded click, which was on the same text
SecondOfDoubleClick(id, e) ==
  lastClickedTextId = Some(id) /\ e.time - lastClickTime < DoubleClickMs

\* C20 as stated: a click on a text T enters edit mode if and only if the
\* recorded click was on T less than DoubleClickMs earlier; otherwise it
\* only selects T.
DoubleClickEdits ==
  [][\A e \in ClickEvents :
       TextClicked(e) =>
         LET T == Val(FindShapeAtPoint(e.pos, shapes))
         IN IF SecondOfDoubleClick(T.id, e)
            THEN EntersEditMode(T.id) ELSE OnlySelects(T.id)]_vars

\* C20: the same of every click that is not on a resize handle of the only
\* selected text; a click on such a handle starts a resize, is not recorded
\* as a text click and leaves the edit mode as it is.
DoubleClickEditsOffHandles ==
  [][\A e \in ClickEvents :
       TextClicked(e) =>
         LET T == Val(FindShapeAtPoint(e.pos, shapes))
         IN IF ResizeHandleAt(e.pos) # None
            THEN /\ isResizingText'
                 /\ UNCHANGED <<editingText, selectedShapes, lastClickTime,
                                lastClickedTextId>>
            ELSE IF SecondOfDoubleClick(T.id, e)
            THEN EntersEditMode(T.id) ELSE OnlySelects(T.id)]_vars

\* a text is being edited after two clicks on it 300 ms apart
EditingAfterDoubleClick ==
  /\ editingText # None /\ lastClickedTextId = Some(Val(editingText).id)
  /\ lastClickTime = 1300 /\ heldButtons = {0}

-----------------------------------------------------------------------------
(* Properties of drawing *)

\* A pointer-up or a pointer-leave is finishing a draw gesture
DrawFinished ==
  /\ isDrawing
  /\ ~(isResizingText /\ Cardinality(selectedShapes) = 1)
  /\ lastOp'.op \in {"mouseup", "mouseleave"}

\* The drag exceeds the minimum size in both axes, in canvas space
DragHasSize ==
  /\ Abs(ScreenToCanvas(drawEnd).x - ScreenToCanvas(drawStart).x) > MinDrawSize
  /\ Abs(ScreenToCanvas(drawEnd).y - ScreenToCanvas(drawStart).y) > MinDrawSize

\* The step appends one shape of the active tool's type and commits once;
\* the step leaves the scene and the history alone
DrawnShapeAdded ==
  /\ Len(shapes') = Len(shapes) + 1
  /\ SubSeq(shapes', 1, Len(shapes)) = shapes
  /\ shapes'[Len(shapes')].type = selectedTool
  /\ lastCommits' = 1
  /\ history'[historyIndex' + 1] = shapes'
NothingAdded == UNCHANGED <<shapes, history, historyIndex>>

\* C21: finishing a rectangle or circle drag creates a shape if the drag
\* exceeds MinDrawSize in both axes and adds nothing to the scene or the
\* history otherwise; finishing a line or arrow drag always creates a shape.
SizeGateOnBoxesOnly ==
  [][DrawFinished =>
       /\ selectedTool \in {"rectangle", "circle"} =>
            (IF DragHasSize THEN DrawnShapeAdded ELSE NothingAdded)
       /\ selectedTool \in {"line", "arrow"} => DrawnShapeAdded]_vars

\* a rectangle or circle drag of 5 by 6 pixels was released and discarded,
\* and a line or arrow of length zero is in the scene
SmallBoxDiscarded ==
  /\ lastOp.op = "mouseup" /\ selectedTool \in {"rectangle", "circle"}
  /\ drawStart = PointA /\ drawEnd = Pt(105, 106)
  /\ \E i \in 1..Len(shapes) :
       /\ shapes[i].type \in {"line", "arrow"}
       /\ shapes[i].x1 = shapes[i].x2 /\ shapes[i].y1 = shapes[i].y2

\* C22: finishing a pencil stroke creates a pencil shape of the accumulated
\* points if and only if there are at least 2 of them; with fewer the scene
\* and the history are unchanged; the point list is emptied either way.
PencilNeedsTwoPoints ==
  [][(DrawFinished /\ selectedTool = "pencil") =>
       /\ IF Len(currentPencilPoints) >= 2
          THEN /\ DrawnShapeAdded
               /\ shapes'[Len(shapes')].points = currentPencilPoints
          ELSE NothingAdded
       /\ currentPencilPoints' = <<>>
       /\ ~isDrawing']_vars

\* a pencil stroke of one point was released: the pencil is still the tool
\* and nothing was drawn
OnePointStrokeDiscarded ==
  /\ lastOp.op = "mouseup" /\ selectedTool = "pencil"
  /\ ~isDrawing /\ currentPencilPoints = <<>> /\ shapes = <<>>
  /\ Len(history) = 1

\* The step places a text with the text tool
TextPlaced ==
  /\ selectedTool = "text" /\ lastCommits' > 0
  /\ Len(shapes') = Len(shapes) + 1
  /\ shapes'[Len(shapes')].type = "text"

\* The step is the pointer-down that starts a draw gesture
DrawStarted == ~isDrawing /\ isDrawing'

\* C23: a release that commits the drawn shape, and the placing of a text,
\* set the tool back to "select" in the same event; a draw gesture that is
\* discarded leaves the tool as it was: neither its pointer-down nor its
\* release changes the tool.
ToolRevertsOnCommitOnly ==
  [][/\ DrawFinished =>
          (IF Len(shapes') > Len(shapes)
           THEN selectedTool' = "select" ELSE selectedTool' = selectedTool)
     /\ TextPlaced => selectedTool' = "select"
     /\ DrawStarted => selectedTool' = selectedTool]_vars

\* a draw gesture was started by a pointer-down that also left the text
\* being edited, and the tool is "select" while the draw is in progress
DrawStartedToolLost ==
  /\ isDrawing /\ selectedTool = "select" /\ lastCommits > 0
  /\ editingText = None /\ heldButtons = {0}

-----------------------------------------------------------------------------
(* Properties of Escape and of the text resize *)

\* The scene holds the text being edited, with its text as typed and out of
\* the edit mode
EditWritten(ss) ==
  \E i \in 1..Len(ss) :
    /\ ss[i].id = Val(editingText).id
    /\ ss[i].text = Val(editingText).text
    /\ ~ss[i].isEditing

\* C24: Escape ends with no text being edited, the selection empty and the
\* tool "select"; if a text was being edited, its final text is in the scene
\* and that scene was committed to the history.
EscapeLeavesEverything ==
  [][KeyStep(PlainKey("Escape")) =>
       /\ editingText' = None /\ selectedShapes' = {}
       /\ selectedTool' = "select"
       /\ editingText # None =>
            /\ EditWritten(shapes')
            /\ lastCommits' = 1
            /\ history'[Len(history')] = shapes']_vars

\* Escape has left the edit of a text that an undo had taken out of the
\* scene: the text is in no scene
EscapeLostTheText ==
  /\ editingText = None /\ shapes = <<>> /\ lastCommits = 1
  /\ ~isSelecting /\ nextId = 2 /\ history = <<<<>>, <<>>>>

\* The step handles a pointer-move to p
MouseMoveStep(p) == \E u \in {HandleMouseMove([pos |-> p])} : Apply(u)

\* A text resize gesture is in progress
Resizing ==
  /\ isResizingText /\ textResizeHandle # None
  /\ Cardinality(selectedShapes) = 1

\* C25: the pointer-down on a resize handle and the pointer-moves of the
\* resize add no snapshot to the history; the release adds exactly one, the
\* scene with the font size of the last move.
ResizeCommitsOnRelease ==
  [][/\ \A e \in ButtonDownEvents(ResizePoints, {0}) :
          (ResizeHandleAt(e.pos) # None /\ ~ShouldPan(e) /\ MouseDownStep(e)) =>
            (Resizing' /\ lastCommits' = 0
             /\ UNCHANGED <<shapes, history, historyIndex>>)
     /\ \A p \in ResizePoints :
          (Resizing /\ MouseMoveStep(p)) =>
            (lastCommits' = 0 /\ UNCHANGED <<history, historyIndex>>)
     /\ (Resizing /\ lastOp'.op = "mouseup") =>
            (/\ lastCommits' = 1 /\ shapes' = shapes
             /\ history'[Len(history')] = shapes
             /\ ~isResizingText')]_vars

\* a resize was released: the last snapshot is the scene and differs from
\* the snapshot before it in the font size of a text
ResizeCommitted ==
  /\ lastOp.op = "mouseup" /\ lastCommits = 1 /\ ~isResizingText
  /\ Len(history) >= 2 /\ history[Len(history)] = shapes
  /\ Len(history[Len(history) - 1]) = Len(shapes)
  /\ \E i \in 1..Len(shapes) :
       /\ shapes[i].type = "text"
       /\ history[Len(history) - 1][i].type = "text"
       /\ history[Len(history) - 1][i].fontSize # shapes[i].fontSize


----------------------------------------------------------------------------
(* The insertion specification: one text is placed with the text tool and  *)
(* typed into with a printable key, Enter and Tab; the caret is moved left  *)
(* and right, with shift to select a range, and everything is selected.    *)
(* Texts grow to MaxInsertLen characters.                                  *)
InsertKeyEvents == {PlainKey("a"), PlainKey("Enter"), PlainKey("Tab")}

CaretKeyEvents ==
  {[key |-> k, mod |-> FALSE, shiftKey |-> sh] :
     k \in {"ArrowLeft", "ArrowRight"}, sh \in BOOLEAN}
  \cup {[key |-> "a", mod |-> TRUE, shiftKey |-> FALSE]}

InsertBounded(u) ==
  /\ Len(u.shapes) <= MaxEditedTexts
  /\ u.nextId <= MaxEditedTexts + 1
  /\ Len(u.history) <= MaxTextHistory
  /\ \A t \in TextsOf(u) : Len(t) <= MaxInsertLen

InsertKeyDown ==
  \E e \in InsertKeyEvents \cup CaretKeyEvents :
    \E u \in {HandleKeyDown(e)} :
      /\ InsertBounded(u)
      /\ Apply(u)
      /\ UNCHANGED heldButtons

InsertMouseDown ==
  /\ selectedTool = "text"
  /\ MouseDownOf(MouseDownEvents({PointA}), MaxEditedTexts, MaxTextHistory)
  /\ UNCHANGED heldButtons

InsertToolSelect ==
  /\ editingText = None
  /\ ToolSelectOf({"text"}, MaxEditedTexts, MaxTextHistory)
  /\ UNCHANGED heldButtons

NextInsert == InsertKeyDown \/ InsertMouseDown \/ InsertToolSelect

SpecInsert == Init /\ [][NextInsert]_vars

----------------------------------------------------------------------------
(* The rectangle specification: with the rectangle tool the left button    *)
(* goes down on a corner of the box (10,10)-(50,30), drags between its      *)
(* corners and is released; the toolbar's rectangle button is clicked with  *)
(* no button held.  The scene starts empty and MaxShapes boxes are drawn.   *)
RectCorners == {Pt(10, 10), Pt(50, 30), Pt(50, 10), Pt(10, 30)}

RectMouseDown ==
  \E e \in ButtonDownEvents(RectCorners, {0}) :
    /\ selectedTool = "rectangle"
    /\ e.button \notin heldButtons
    /\ heldButtons' = heldButtons \cup {e.button}
    /\ MouseDownOf({e}, MaxShapes, MaxGestureHistory)

RectMouseMove ==
  /\ MouseMoveOf(RectCorners, MaxShapes, MaxGestureHistory)
  /\ UNCHANGED heldButtons

RectMouseUp ==
  /\ heldButtons # {}
  /\ heldButtons' = {}
  /\ MouseUpOf("mouseup", MaxShapes, MaxGestureHistory)

RectToolSelect ==
  /\ heldButtons = {}
  /\ ToolSelectOf({"rectangle"}, MaxShapes, MaxGestureHistory)
  /\ UNCHANGED heldButtons

NextRect == RectMouseDown \/ RectMouseMove \/ RectMouseUp \/ RectToolSelect

SpecRect == Init /\ [][NextRect]_vars

----------------------------------------------------------------------------
(* The import of a file into the fabric canvas.  The objects of that canvas *)
(* (canvas.getObjects(): the grid lines and what the user placed) are its   *)
(* scene and are kept in shapes, in stacking order; the message of an alert *)
(* is kept in lastOp.  An object is its type and its stroke, which is all   *)
(* the import looks at.                                                     *)

\* addGrid(): lines with stroke '#ddd' (one vertical and one horizontal here)
GridLine == [type |-> "line", stroke |-> "#ddd"]

GridLines == <<GridLine, GridLine>>

\* obj instanceof Line && obj.stroke === '#ddd'
IsGridLine(obj) == obj.type = "line" /\ obj.stroke = "#ddd"

RECURSIVE KeepGrid(_)
KeepGrid(objects) ==
  IF objects = <<>> THEN <<>>
  ELSE IF IsGridLine(Head(objects))
       THEN <<Head(objects)>> \o KeepGrid(Tail(objects))
       ELSE KeepGrid(Tail(objects))

\* createObject(tool, x, y): the object a tool places
FabricTools == {"rectangle", "circle"}

CreateObject(tool) ==
  [type |-> IF tool = "rectangle" THEN "rect" ELSE "circle",
   stroke |-> "#000000"]

\* What a file holds: text that is neither JSON nor markup; a JSON document
\* without an objects array, or with one; markup without an svg element, or
\* with one.  The objects of a document and the elements of an svg are
\* given by their types.
FileContents ==
  {[kind |-> "text"],
   [kind |-> "json", objects |-> None],
   [kind |-> "json", objects |-> Some(<<"rect">>)],
   [kind |-> "json", objects |-> Some(<<"unknown", "circle">>)],
   [kind |-> "markup", svg |-> None],
   [kind |-> "markup", svg |-> Some(<<"rect">>)]}

Files ==
  {[extension |-> x, content |-> c] :
     x \in {"json", "svg", "txt"}, c \in FileContents}

\* JSON.parse(text): the document, or None where it throws
JsonParse(content) == IF content.kind = "json" THEN Some(content) ELSE None

\* new DOMParser().parseFromString(text, 'image/svg+xml').querySelector('svg'):
\* the elements of the svg, or None where there is no svg element
QuerySvg(content) == IF content.kind = "markup" THEN content.svg ELSE None

\* The objects made from the entries of a document or the elements of an
\* svg: an entry of an unsupported type is skipped
RECURSIVE CreateImported(_)
CreateImported(types) ==
  IF types = <<>> THEN <<>>
  ELSE IF Head(types) \in {"rect", "circle"}
       THEN <<[type |-> Head(types), stroke |-> "#000000"]>>
              \o CreateImported(Tail(types))
       ELSE CreateImported(Tail(types))

NoAlert == "none"

JsonAlert ==
  "Invalid JSON file format. Please ensure you are using a file exported from this application."

SvgAlert == "Error loading SVG file: Invalid SVG file"

ExtensionAlert == "Please upload a .json or .svg file"

\* handleFileUpload(event) and the reader's onload, for a .json file: the
\* document is parsed and its objects array tested before anything is
\* removed from the canvas
UploadJson(file) ==
  LET jsonData == JsonParse(file.content)
  IN  IF jsonData = None \/ Val(jsonData).objects = None
      THEN [objects |-> shapes, alert |-> JsonAlert]
      ELSE [objects |-> KeepGrid(shapes)
                         \o CreateImported(Val(Val(jsonData).objects)),
            alert |-> NoAlert]

\* The same for an .svg file: canvas.clear() and the grid lines put back
\* come first, the markup is parsed after them
UploadSvg(file) ==
  LET cleared == KeepGrid(shapes)
      svgElement == QuerySvg(file.content)
  IN  IF svgElement = None
      THEN [objects |-> cleared, alert |-> SvgAlert]
      ELSE [objects |-> cleared \o CreateImported(Val(svgElement)),
            alert |-> NoAlert]

\* handleFileUpload(event) and the onload of its reader
HandleFileUpload(file) ==
  IF file.extension = "json" THEN UploadJson(file)
  ELSE IF file.extension = "svg" THEN UploadSvg(file)
       ELSE [objects |-> shapes, alert |-> ExtensionAlert]

\* What the fabric canvas leaves alone
FabricOnly ==
  UNCHANGED <<canvas, selectedTool, history, historyIndex, editingText,
              textCursorPosition, textSelectionStart, textSelectionEnd,
              lastClickTime, lastClickedTextId, selectedShapes, isPanning,
              lastPanPoint, offset, scale, isDrawing, drawStart, drawEnd,
              currentPencilPoints, isSelecting, selectionStart, selectionEnd,
              isResizingText, textResizeHandle, textResizeStartMouse,
              originalFontSize, nextId, lastCommits, trip, lastDiscarded,
              heldButtons>>

UploadStep(file) ==
  \E u \in {HandleFileUpload(file)} :
    /\ shapes' = u.objects
    /\ lastOp' = Op("upload", u.alert)
    /\ FabricOnly

FabricBounded == Len(shapes) <= Len(GridLines) + MaxFabricObjects

\* The canvas after its construction: the grid
InitFabric ==
  /\ canvas = "fabric"
  /\ selectedTool = "select"
  /\ shapes = GridLines
  /\ history = <<<<>>>>
  /\ historyIndex = 0
  /\ editingText = None
  /\ textCursorPosition = 0
  /\ textSelectionStart = None
  /\ textSelectionEnd = None
  /\ lastClickTime = 0
  /\ lastClickedTextId = None
  /\ selectedShapes = {}
  /\ isPanning = FALSE
  /\ lastPanPoint = Origin
  /\ offset = Origin
  /\ scale = 1
  /\ isDrawing = FALSE
  /\ drawStart = Origin
  /\ drawEnd = Origin
  /\ currentPencilPoints = <<>>
  /\ isSelecting = FALSE
  /\ selectionStart = Origin
  /\ selectionEnd = Origin
  /\ isResizingText = FALSE
  /\ textResizeHandle = None
  /\ textResizeStartMouse = Origin
  /\ originalFontSize = DefaultFontSize
  /\ nextId = 1
  /\ lastOp = Op("other", "none")
  /\ lastCommits = 0
  /\ trip = [phase |-> "commits", scenes |-> <<<<>>>>, k |-> 0]
  /\ lastDiscarded = 0
  /\ heldButtons = {}

\* handleMouseDown of the fabric canvas: the object of the tool is added
FabricPlace ==
  \E tool \in FabricTools :
    /\ shapes' = Append(shapes, CreateObject(tool))
    /\ lastOp' = Op("place", tool)
    /\ FabricBounded'
    /\ FabricOnly

FabricUpload ==
  \E file \in Files : UploadStep(file) /\ FabricBounded'

NextFabric == FabricPlace \/ FabricUpload

SpecFabric == InitFabric /\ [][NextFabric]_vars

----------------------------------------------------------------------------
(* The view transform: zoom, wheel pan and the coordinate conversions *)

\* The scale and the offset are JavaScript numbers.  A number is modelled
\* as the exact fraction [n, d] it stands for, in lowest terms with d > 0
\* (the scale is multiplied by 0.9 or 1.1 and the offset by their quotients,
\* so neither stays an integer), and an operation as the exact one: the
\* rounding of the double-precision operations, which moves a result by a
\* few units in its last place, is not modelled.
RECURSIVE Gcd(_, _)
Gcd(a, b) == IF b = 0 THEN a ELSE Gcd(b, a % b)

Q(n, d) ==
  LET g == Gcd(Abs(n), d)
  IN  [n |-> n \div g, d |-> d \div g]

QInt(i) == [n |-> i, d |-> 1]

QAbs(a) == [n |-> Abs(a.n), d |-> a.d]

\* +, -, * and / of two numbers (the divisor is a scale, and positive)
QAdd(a, b) == Q(a.n * b.d + b.n * a.d, a.d * b.d)

QSub(a, b) == Q(a.n * b.d - b.n * a.d, a.d * b.d)

QMul(a, b) == Q(a.n * b.n, a.d * b.d)

QDiv(a, b) == Q(a.n * b.d, a.d * b.n)

QLeq(a, b) == a.n * b.d <= b.n * a.d

\* Math.max and Math.min
QMax(a, b) == IF QLeq(a, b) THEN b ELSE a

QMin(a, b) == IF QLeq(a, b) THEN a ELSE b

QPt(p) == [x |-> QInt(p.x), y |-> QInt(p.y)]

\* Math.max(0.1, Math.min(30, ...)): the limits of the scale
MinScale == Q(1, 10)

MaxScale == Q(30, 1)

\* scaleFactor = e.deltaY > 0 ? 0.9 : 1.1
WheelFactor(deltaY) == IF deltaY > 0 THEN Q(9, 10) ELSE Q(11, 10)

\* screenToCanvas(point): (point - offset) / scale, for the offset and the
\* scale of a given view and for those of the current one
ScreenToCanvasIn(view, point) ==
  [x |-> QDiv(QSub(point.x, view.offset.x), view.scale),
   y |-> QDiv(QSub(point.y, view.offset.y), view.scale)]

View == [offset |-> offset, scale |-> scale]

screenToCanvas(point) == ScreenToCanvasIn(View, point)

\* A conversion back that leaves the offset out
canvasToScreenNoOffset(point) ==
  [x |-> QMul(point.x, scale), y |-> QMul(point.y, scale)]

\* canvasToScreen(point): point * scale + offset
canvasToScreen(point) ==
  [x |-> QAdd(QMul(point.x, scale), offset.x),
   y |-> QAdd(QMul(point.y, scale), offset.y)]

\* The same zoom with the offset moved by the requested factor instead of
\* by the quotient of the clamped scale and the old one
zoomAtRequestedFactor(point, scaleFactor) ==
  LET newScale == QMax(MinScale, QMin(MaxScale, QMul(scale, scaleFactor)))
  IN  [offset |->
         [x |-> QSub(point.x, QMul(QSub(point.x, offset.x), scaleFactor)),
          y |-> QSub(point.y, QMul(QSub(point.y, offset.y), scaleFactor))],
       scale |-> newScale]

\* zoomAt without the limits of the scale
zoomAtUnclamped(point, scaleFactor) ==
  LET newScale == QMul(scale, scaleFactor)
      scaleChange == QDiv(newScale, scale)
  IN  [offset |-> [x |-> QSub(point.x, QMul(QSub(point.x, offset.x), scaleChange)),
                   y |-> QSub(point.y, QMul(QSub(point.y, offset.y), scaleChange))],
       scale |-> newScale]

\* zoomAt(point, scaleFactor): the new scale is clamped, the offset is moved
\* by scaleChange = newScale / scale about the point
zoomAt(point, scaleFactor) ==
  LET newScale == QMax(MinScale, QMin(MaxScale, QMul(scale, scaleFactor)))
      scaleChange == QDiv(newScale, scale)
  IN  [offset |->
         [x |-> QSub(point.x, QMul(QSub(point.x, offset.x), scaleChange)),
          y |-> QSub(point.y, QMul(QSub(point.y, offset.y), scaleChange))],
       scale |-> newScale]

\* handleWheel(e): with the zoom modifier (Ctrl, Cmd on a Mac, or a pinch)
\* the view zooms about the pointer; without it the wheel pans
HandleWheel(e) ==
  IF e.zoom
  THEN zoomAt(QPt(e.pos), WheelFactor(e.deltaY))
  ELSE [offset |-> [x |-> QSub(offset.x, QInt(e.deltaX)),
                    y |-> QSub(offset.y, QInt(e.deltaY))],
        scale |-> scale]

\* resetZoom(): scale 1, offset (0, 0)
ResetZoomResult == [offset |-> QPt(Origin), scale |-> QInt(1)]

\* What the wheel and the zoom label leave alone
ViewOnly ==
  UNCHANGED <<canvas, selectedTool, shapes, history, historyIndex,
              editingText, textCursorPosition, textSelectionStart,
              textSelectionEnd, lastClickTime, lastClickedTextId,
              selectedShapes, isPanning, lastPanPoint, isDrawing, drawStart,
              drawEnd, currentPencilPoints, isSelecting, selectionStart,
              selectionEnd, isResizingText, textResizeHandle,
              textResizeStartMouse, originalFontSize, nextId, lastCommits,
              trip, lastDiscarded, heldButtons>>

\* Pointer positions of the wheel events, and their deltas
ZoomAnchors == {Origin, Pt(40, 20)}

WheelEvents ==
  {[pos |-> p, zoom |-> TRUE, deltaX |-> 0, deltaY |-> dy] :
     p \in ZoomAnchors, dy \in {-100, 100}}
  \cup
  {[pos |-> p, zoom |-> FALSE, deltaX |-> d[1], deltaY |-> d[2]] :
     p \in ZoomAnchors, d \in {<<-10, -5>>, <<10, 5>>}}

\* The scales and the offsets that are explored
ZoomBounded ==
  /\ scale.d <= MaxScaleDen
  /\ offset.x.d <= MaxOffsetDen /\ offset.y.d <= MaxOffsetDen
  /\ QLeq(QAbs(offset.x), QInt(MaxZoomOffset))
  /\ QLeq(QAbs(offset.y), QInt(MaxZoomOffset))

\* One wheel event, handled
WheelStep(e) ==
  \E u \in {HandleWheel(e)} :
    /\ scale' = u.scale
    /\ offset' = u.offset
    /\ lastOp' = Op("wheel", IF e.zoom THEN "zoom" ELSE "pan")
    /\ ViewOnly

\* The view starts at scale 1 and offset (0, 0).  A zoom about the origin
\* leaves that offset alone, so twenty-two steps out (thirty-six in) reach
\* the lower (upper) limit of the scale with the offset still (0, 0): the
\* exploration starts from these three views.
InitZoom ==
  /\ canvas \in {"hooks", "inline"}
  /\ selectedTool = "select"
  /\ shapes = <<>>
  /\ history = <<<<>>>>
  /\ historyIndex = 0
  /\ editingText = None
  /\ textCursorPosition = 0
  /\ textSelectionStart = None
  /\ textSelectionEnd = None
  /\ lastClickTime = 0
  /\ lastClickedTextId = None
  /\ selectedShapes = {}
  /\ isPanning = FALSE
  /\ lastPanPoint = Origin
  /\ offset = QPt(Origin)
  /\ scale \in {QInt(1), MinScale, MaxScale}
  /\ isDrawing = FALSE
  /\ drawStart = Origin
  /\ drawEnd = Origin
  /\ currentPencilPoints = <<>>
  /\ isSelecting = FALSE
  /\ selectionStart = Origin
  /\ selectionEnd = Origin
  /\ isResizingText = FALSE
  /\ textResizeHandle = None
  /\ textResizeStartMouse = Origin
  /\ originalFontSize = DefaultFontSize
  /\ nextId = 1
  /\ lastOp = Op("other", "none")
  /\ lastCommits = 0
  /\ trip = [phase |-> "commits", scenes |-> <<<<>>>>, k |-> 0]
  /\ lastDiscarded = 0
  /\ heldButtons = {}

ZoomWheel ==
  \E e \in WheelEvents : e.zoom /\ WheelStep(e) /\ ZoomBounded'

PanWheel ==
  \E e \in WheelEvents : ~e.zoom /\ WheelStep(e) /\ ZoomBounded'

ResetZoom ==
  /\ scale' = ResetZoomResult.scale
  /\ offset' = ResetZoomResult.offset
  /\ lastOp' = Op("resetZoom", "none")
  /\ ViewOnly

NextZoom == ZoomWheel \/ PanWheel \/ ResetZoom

SpecZoom == InitZoom /\ [][NextZoom]_vars

----------------------------------------------------------------------------
(* The selection specification.  The scene holds a line, a rectangle and a  *)
(* text, or a rectangle and a line; the left button clicks, with and        *)
(* without shift, on each of them and on the empty canvas, and Escape is    *)
(* pressed.  As in the marquee specification the events that leave the      *)
(* scene and its history as they are are followed.                          *)
SelectBuilds == {<<"line", "rectangle", "text">>, <<"rectangle", "line">>}

\* On the line (and on the north-west handle of the text), on the rectangle,
\* on the text and on the empty canvas
SelectPoints == {Pt(94, 94), Pt(130, 130), Pt(102, 125), Pt(60, 60)}

SelectDownEvents ==
  {[pos |-> p, button |-> 0, mod |-> FALSE, shiftKey |-> sh, time |-> t] :
     p \in SelectPoints, sh \in BOOLEAN, t \in Times}

InitSelect == \E kinds \in SelectBuilds : InitBuilt(kinds, Origin)

SelectMouseDown ==
  \E e \in SelectDownEvents :
    /\ e.button \notin heldButtons
    /\ heldButtons' = heldButtons \cup {e.button}
    /\ MouseDownOf({e}, MaxSelectShapes, HistoryCap)
    /\ SceneKept

SelectMouseUp ==
  /\ MouseUpOf("mouseup", MaxSelectShapes, HistoryCap)
  /\ heldButtons' = {}
  /\ SceneKept

SelectKeyDown ==
  /\ KeyDownOf({PlainKey("Escape")}, MaxSelectShapes, HistoryCap)
  /\ UNCHANGED heldButtons
  /\ SceneKept

NextSelect == SelectMouseDown \/ SelectMouseUp \/ SelectKeyDown

SpecSelect == InitSelect /\ [][NextSelect]_vars

----------------------------------------------------------------------------
(* The pan specification: the middle button goes down at one of three      *)
(* points, the pointer moves between them and the button comes up or the    *)
(* pointer leaves; offsets up to MaxPan are followed.                       *)
PanPoints == {PointA, Pt(104, 103), PointB}

PanMouseDown ==
  \E e \in ButtonDownEvents(PanPoints, {1}) :
    /\ e.button \notin heldButtons
    /\ heldButtons' = heldButtons \cup {e.button}
    /\ MouseDownOf({e}, MaxShapes, HistoryCap)

PanMouseMove ==
  MouseMoveOf(PanPoints, MaxShapes, HistoryCap) /\ UNCHANGED heldButtons

PanMouseUp ==
  MouseUpOf("mouseup", MaxShapes, HistoryCap) /\ heldButtons' = {}

PanMouseLeave ==
  MouseUpOf("mouseleave", MaxShapes, HistoryCap) /\ heldButtons' = {}

NextPan == PanMouseDown \/ PanMouseMove \/ PanMouseUp \/ PanMouseLeave

SpecPan == Init /\ [][NextPan]_vars

----------------------------------------------------------------------------
(* Properties of the view transform *)

\* C26: a zoom about a pointer position leaves the canvas point under that
\* position where it was, also when the new scale is clamped to 0.1 or 30.
ZoomKeepsAnchor ==
  [][\A e \in WheelEvents :
       (e.zoom /\ WheelStep(e)) =>
         ScreenToCanvasIn([offset |-> offset', scale |-> scale'], QPt(e.pos))
           = screenToCanvas(QPt(e.pos))]_vars

\* A zoom in from 29.7 was clamped to 30: the offset was moved by 100/99
ZoomClamped ==
  /\ lastOp = Op("wheel", "zoom")
  /\ scale = MaxScale
  /\ offset.x.d # 1

----------------------------------------------------------------------------
(* Properties of the rectangle factory *)

\* The geometry of a rectangle
Geometry(r) == [x |-> r.x, y |-> r.y, width |-> r.width, height |-> r.height]

\* C28: the rectangle made from two corners has x and y the smaller of the
\* corners' coordinates and width and height the absolute differences, so
\* the reverse drag makes the same rectangle, no width or height is
\* negative, and (10,10)->(50,30) and (50,30)->(10,10) both make
\* x 10, y 10, width 40, height 20.
RectangleIgnoresDirection ==
  [][(DrawFinished /\ selectedTool = "rectangle" /\ DragHasSize) =>
       LET start == ScreenToCanvas(drawStart)
           end == ScreenToCanvas(drawEnd)
           made == shapes'[Len(shapes')]
       IN  /\ DrawnShapeAdded
           /\ Geometry(made) =
                [x |-> Min(start.x, end.x), y |-> Min(start.y, end.y),
                 width |-> Abs(end.x - start.x),
                 height |-> Abs(end.y - start.y)]
           /\ Geometry(made) =
                Geometry(CreateRectangle(made.id, end.x, end.y,
                                         start.x, start.y))
           /\ made.width >= 0 /\ made.height >= 0
           /\ {start, end} = {Pt(10, 10), Pt(50, 30)} =>
                Geometry(made) =
                  [x |-> 10, y |-> 10, width |-> 40, height |-> 20]]_vars

\* The drag from (50,30) back to (10,10) made the rectangle
ReverseDragMadeRectangle ==
  /\ lastOp.op = "mouseup"
  /\ lastCommits = 1
  /\ drawStart = Pt(50, 30) /\ drawEnd = Pt(10, 10)
  /\ Len(shapes) >= 1
  /\ shapes[Len(shapes)].type = "rectangle"
  /\ Geometry(shapes[Len(shapes)]) =
       [x |-> 10, y |-> 10, width |-> 40, height |-> 20]

----------------------------------------------------------------------------
(* Properties of the import *)

\* A file the import cannot read: a .json file that does not parse or has
\* no objects array, an .svg file without an svg element
Malformed(file) ==
  \/ /\ file.extension = "json"
     /\ \/ JsonParse(file.content) = None
        \/ Val(JsonParse(file.content)).objects = None
  \/ /\ file.extension = "svg"
     /\ QuerySvg(file.content) = None

\* C29: the import of a malformed file shows a message and leaves every
\* object of the canvas in place.
MalformedImportChangesNothing ==
  [][\A file \in Files :
       (Malformed(file) /\ UploadStep(file)) =>
          /\ lastOp'.detail # NoAlert
          /\ shapes' = shapes]_vars

\* The import of a malformed .json file shows a message and changes nothing
MalformedJsonChangesNothing ==
  [][\A file \in Files :
       (Malformed(file) /\ file.extension = "json" /\ UploadStep(file)) =>
          /\ lastOp'.detail = JsonAlert
          /\ shapes' = shapes]_vars

\* The import of an .svg file without an svg element showed its message
\* over a canvas with nothing but the grid
SvgRejectedCanvasCleared ==
  /\ lastOp = Op("upload", SvgAlert)
  /\ shapes = GridLines

----------------------------------------------------------------------------
(* Properties of the insertion by key *)

\* What a key inserts
KeyString(key) ==
  CASE key = "Enter" -> <<NL>>
    [] key = "Tab" -> <<SP, SP, SP, SP>>
    [] OTHER -> <<key>>

\* The selection, if there is one, lies in the text
SelectionInText ==
  HasTextSelection =>
    /\ Val(textSelectionStart) \in 0..Len(Val(editingText).text)
    /\ Val(textSelectionEnd) \in 0..Len(Val(editingText).text)

\* The edited text of the next state, which is also its text in the scene
EditedTextBecomes(newText) ==
  /\ editingText' # None
  /\ Val(editingText').text = newText
  /\ \A i \in 1..Len(shapes') :
       shapes'[i].id = Val(editingText).id => shapes'[i].text = newText

\* C30: a printable key, Enter (a newline) and Tab (four spaces) insert
\* their string s: without a selection at the caret, the caret moving on by
\* the length of s; with a selection in place of the selected range
\* [min, max), the caret going to min + length of s and the selection being
\* cleared.
KeyInsertsString ==
  [][\A e \in InsertKeyEvents :
       (/\ editingText # None
        /\ CaretInText
        /\ SelectionInText
        /\ KeyStep(e)) =>
         LET text == Val(editingText).text
             s == KeyString(e.key)
             caret == textCursorPosition
         IN  IF HasTextSelection
             THEN LET min == Min(Val(textSelectionStart), Val(textSelectionEnd))
                      max == Max(Val(textSelectionStart), Val(textSelectionEnd))
                  IN  /\ EditedTextBecomes(SubSeq(text, 1, min) \o s
                                           \o SubSeq(text, max + 1, Len(text)))
                      /\ textCursorPosition' = min + Len(s)
                      /\ textSelectionStart' = None
                      /\ textSelectionEnd' = None
             ELSE /\ EditedTextBecomes(SubSeq(text, 1, caret) \o s
                                       \o SubSeq(text, caret + 1, Len(text)))
                  /\ textCursorPosition' = caret + Len(s)
                  /\ ~HasTextSelection']_vars

\* Tab has put its four spaces after an "a", the caret behind them
TabInserted ==
  /\ lastOp = Op("key", "edit")
  /\ editingText # None
  /\ Val(editingText).text = <<"a", SP, SP, SP, SP>>
  /\ textCursorPosition = 5
  /\ ~HasTextSelection

----------------------------------------------------------------------------
(* Properties of the deletion by key *)

\* The text without its characters of the range [a, b)
Without(text, a, b) == SubSeq(text, 1, a) \o SubSeq(text, b + 1, Len(text))

\* The key changes nothing of the text, the caret and the selection
KeyIsNoOp ==
  UNCHANGED <<editingText, shapes, textCursorPosition, textSelectionStart,
              textSelectionEnd>>

\* C31: in a text whose caret and selection lie in it, Backspace without a
\* selection deletes the character before the caret and moves the caret
\* back by 1, and changes nothing at caret 0; Delete without a selection
\* deletes the character after the caret and keeps the caret, and changes
\* nothing at the end of the text; with a selection either key removes the
\* selected range [min, max), puts the caret at min and clears the
\* selection.
DeletionKeys ==
  [][\A key \in {"Backspace", "Delete"} :
       (/\ editingText # None
        /\ CaretInText
        /\ SelectionInText
        /\ KeyStep(PlainKey(key))) =>
         LET text == Val(editingText).text
             caret == textCursorPosition
         IN  IF HasTextSelection
             THEN LET min == Min(Val(textSelectionStart), Val(textSelectionEnd))
                      max == Max(Val(textSelectionStart), Val(textSelectionEnd))
                  IN  /\ EditedTextBecomes(Without(text, min, max))
                      /\ textCursorPosition' = min
                      /\ textSelectionStart' = None
                      /\ textSelectionEnd' = None
             ELSE IF key = "Backspace"
             THEN IF caret = 0
                  THEN KeyIsNoOp
                  ELSE /\ EditedTextBecomes(Without(text, caret - 1, caret))
                       /\ textCursorPosition' = caret - 1
                       /\ UNCHANGED <<textSelectionStart, textSelectionEnd>>
             ELSE IF caret = Len(text)
                  THEN KeyIsNoOp
                  ELSE /\ EditedTextBecomes(Without(text, caret, caret + 1))
                       /\ textCursorPosition' = caret
                       /\ UNCHANGED <<textSelectionStart, textSelectionEnd>>]_vars

\* A text that was left as "a" is edited again and has lost its character
\* to a key: no key but Backspace and Delete makes a text empty
CharacterDeleted ==
  /\ lastOp = Op("key", "edit")
  /\ editingText # None
  /\ Val(editingText).text = <<>>
  /\ \E i \in 1..Len(history) : \E j \in 1..Len(history[i]) :
       /\ history[i][j].id = Val(editingText).id
       /\ history[i][j].text = <<"a">>

----------------------------------------------------------------------------
(* Properties of the caret keys *)

ArrowKey(key, shiftKey) == [key |-> key, mod |-> FALSE, shiftKey |-> shiftKey]

\* v, brought into lo..hi
Clamp(v, lo, hi) == Max(lo, Min(hi, v))

\* C32: ArrowLeft and ArrowRight without shift.  Without a selection the
\* caret moves by -1 / +1 and stays in [0, length of the text]; with a
\* selection the caret goes to the smaller (ArrowLeft) or the larger
\* (ArrowRight) of its two ends; the selection is cleared and the text is
\* not changed.
PlainArrowsMoveCaret ==
  [][\A key \in {"ArrowLeft", "ArrowRight"} :
       (/\ editingText # None
        /\ CaretInText
        /\ KeyStep(ArrowKey(key, FALSE))) =>
         LET len == Len(Val(editingText).text)
             step == IF key = "ArrowLeft" THEN -1 ELSE 1
             a == Val(textSelectionStart)
             b == Val(textSelectionEnd)
         IN  /\ textCursorPosition' =
                  IF HasTextSelection
                  THEN (IF key = "ArrowLeft" THEN Min(a, b) ELSE Max(a, b))
                  ELSE Clamp(textCursorPosition + step, 0, len)
             /\ textSelectionStart' = None
             /\ textSelectionEnd' = None
             /\ UNCHANGED <<editingText, shapes>>]_vars

\* The caret stands before "aa" and nothing is selected: typing leaves the
\* caret behind a character and shift keeps a selection, so that a plain
\* arrow has brought it there
CaretBroughtToStart ==
  /\ lastOp = Op("key", "edit")
  /\ editingText # None
  /\ Val(editingText).text = <<"a", "a">>
  /\ textCursorPosition = 0
  /\ ~HasTextSelection

----------------------------------------------------------------------------
(* Properties of the selection by shift and arrow *)

\* The key before was ArrowLeft or ArrowRight with shift: a run goes on
InRun == lastOp = Op("key", "extend")

\* C33 as stated: in a run of consecutive presses of ArrowLeft or ArrowRight
\* with shift, the anchor textSelectionStart is the caret of the first
\* press and is the same after every press, and textSelectionEnd is the
\* caret after every press.
AnchorIsCaretOfFirstPress ==
  [][\A key \in {"ArrowLeft", "ArrowRight"} :
       (editingText # None /\ KeyStep(ArrowKey(key, TRUE))) =>
         /\ textSelectionStart' =
              IF InRun THEN textSelectionStart ELSE Some(textCursorPosition)
         /\ textSelectionEnd' = Some(textCursorPosition')]_vars

\* C33, amended: the first press of a run anchors the selection at the
\* caret only when nothing is selected; a selection that is there (made by
\* select-all, or with the vertical arrows) keeps its anchor, and the run
\* extends it.  The anchor is the same after every press of the run and
\* textSelectionEnd is the caret after every press.
AnchorKeptOrSetAtFirstPress ==
  [][\A key \in {"ArrowLeft", "ArrowRight"} :
       (editingText # None /\ KeyStep(ArrowKey(key, TRUE))) =>
         /\ textSelectionStart' =
              IF InRun \/ textSelectionStart # None
              THEN textSelectionStart
              ELSE Some(textCursorPosition)
         /\ textSelectionStart' # None
         /\ textSelectionEnd' = Some(textCursorPosition')]_vars

\* Two presses into a run that started behind "aa": the anchor is where the
\* caret was, the end and the caret are two characters before it
RunOfTwoPresses ==
  /\ InRun
  /\ editingText # None
  /\ Val(editingText).text = <<"a", "a">>
  /\ textSelectionStart = Some(2)
  /\ textSelectionEnd = Some(0)
  /\ textCursorPosition = 0

\* C34: textSelectionStart and textSelectionEnd are both null or both set,
\* and both null when no text is edited.
SelectionEndsTogether ==
  /\ (textSelectionStart = None) <=> (textSelectionEnd = None)
  /\ editingText = None =>
       (textSelectionStart = None /\ textSelectionEnd = None)

\* Both ends are set: the two characters of the edited text are selected
\* from the right
WholeTextSelectedBackwards ==
  /\ editingText # None
  /\ Len(Val(editingText).text) = 2
  /\ textSelectionStart = Some(2)
  /\ textSelectionEnd = Some(0)

----------------------------------------------------------------------------
(* Properties of the selection set *)

\* C35: a click on a shape (selectShape) makes the selection exactly that
\* shape, whatever it was; a click with shift (toggleShapeSelection) adds
\* the shape if it is not selected and removes it if it is, leaving every
\* other member alone, so that toggling once more gives the selection back;
\* a click on the empty canvas (clearSelection) empties the selection.
SelectToggleClear ==
  [][\A e \in SelectDownEvents :
       (/\ selectedTool = "select"
        /\ ResizeHandleAt(e.pos) = None
        /\ MouseDownStep(e)) =>
         LET clickedShape == FindShapeAtPoint(e.pos, shapes)
             id == Val(clickedShape).id
         IN  IF clickedShape = None
             THEN selectedShapes' = {}
             ELSE IF e.shiftKey
             THEN /\ (id \in selectedShapes') <=> (id \notin selectedShapes)
                  /\ selectedShapes' \ {id} = selectedShapes \ {id}
                  /\ toggleShapeSelection(selectedShapes', id) = selectedShapes
             ELSE selectedShapes' = {id}]_vars

\* Clicks with shift have selected the three shapes of the scene one after
\* the other
ThreeShapesSelected ==
  /\ Len(shapes) = 3
  /\ selectedShapes = {shapes[i].id : i \in 1..3}
  /\ editingText = None

----------------------------------------------------------------------------
(* Properties of the scale *)

\* C36: whatever zooms and resets were made, the scale is positive and
\* within [0.1, 30]; resetZoom sets the scale to 1 and the offset to (0, 0).
ScaleWithinLimits ==
  /\ [](/\ scale.n > 0 /\ scale.d > 0
        /\ QLeq(MinScale, scale)
        /\ QLeq(scale, MaxScale))
  /\ [][lastOp' = Op("resetZoom", "none") =>
          (scale' = QInt(1) /\ offset' = QPt(Origin))]_vars

\* A zoom out from 0.11 was held at 0.1: the offset was moved by 10/11 and
\* not by the 0.9 of the wheel
ScaleHeldAtMinimum ==
  /\ lastOp = Op("wheel", "zoom")
  /\ scale = MinScale
  /\ offset.x.d = 11

----------------------------------------------------------------------------
(* Properties of the pan *)

\* C37: a pan that starts at p0 (startPanning records it and leaves the
\* offset alone) keeps offset - lastPanPoint as it is at every move and
\* records the point moved to, so that after the moves to p1, ..., pn the
\* offset is its value at the start plus pn - p0, whatever the points in
\* between; the scale is not changed.
PanFollowsPointer ==
  [][/\ \A e \in ButtonDownEvents(PanPoints, {1}) :
          MouseDownStep(e) =>
            /\ isPanning' /\ lastPanPoint' = e.pos
            /\ UNCHANGED <<offset, scale>>
     /\ \A p \in PanPoints :
          (isPanning /\ MouseMoveStep(p)) =>
            /\ offset'.x - p.x = offset.x - lastPanPoint.x
            /\ offset'.y - p.y = offset.y - lastPanPoint.y
            /\ lastPanPoint' = p
            /\ isPanning'
            /\ scale' = scale]_vars

\* A pan from PointB to PointA, directly or by way of the point between
\* them: the view is (-8, -6) from where it was
PannedBack ==
  /\ isPanning
  /\ lastPanPoint = PointA
  /\ offset = Pt(-8, -6)

----------------------------------------------------------------------------
(* Properties of the bounding box *)

\* getShapeBoundingBox(shape), as its two corners: the extent of the shape
\* padded by BoxPadding on every side.  The vertical coordinates are
\* multiplied by 5, as is the height of a text.  (The box of a circle is
\* about its radius, which the model holds squared; the scenes of the
\* marquee specification have no circle.)
getShapeBoundingBox(shape) ==
  LET padded(minX, minY5, maxX, maxY5) ==
        [minX |-> minX - BoxPadding, minY5 |-> minY5 - 5 * BoxPadding,
         maxX |-> maxX + BoxPadding, maxY5 |-> maxY5 + 5 * BoxPadding]
      xs == {shape.points[i].x : i \in 1..Len(shape.points)}
      ys == {shape.points[i].y : i \in 1..Len(shape.points)}
      lo(S) == CHOOSE v \in S : \A w \in S : v <= w
      hi(S) == CHOOSE v \in S : \A w \in S : v >= w
  IN CASE shape.type = "rectangle" ->
            padded(shape.x, 5 * shape.y, shape.x + shape.width,
                   5 * (shape.y + shape.height))
       [] shape.type \in {"line", "arrow"} ->
            padded(Min(shape.x1, shape.x2), 5 * Min(shape.y1, shape.y2),
                   Max(shape.x1, shape.x2), 5 * Max(shape.y1, shape.y2))
       [] shape.type = "pencil" ->
            IF Len(shape.points) > 0
            THEN padded(lo(xs), 5 * lo(ys), hi(xs), 5 * hi(ys))
            ELSE [minX |-> 0, minY5 |-> 0, maxX |-> 0, maxY5 |-> 0]
       [] shape.type = "text" ->
            padded(shape.x, 5 * shape.y, shape.x + GetTextWidth(shape),
                   5 * shape.y + GetTextHeight5(shape))

\* The bounding box of the shape lies inside the rectangle m
BoundingBoxInside(shape, m) ==
  LET box == getShapeBoundingBox(shape)
  IN /\ box.minX >= m.x /\ box.maxX <= m.x + m.width
     /\ box.minY5 >= 5 * m.y /\ box.maxY5 <= 5 * (m.y + m.height)

\* C38: a finished marquee selects a shape if and only if the shape's
\* bounding box of getShapeBoundingBox, its extent padded by 5 on every
\* side, lies inside the marquee in canvas space.
MarqueeSelectsPaddedBoxes ==
  [][(MarqueeFinished /\ DragExceedsThreshold) =>
       selectedShapes' =
         {shapes[i].id : i \in {k \in 1..Len(shapes) :
                                  BoundingBoxInside(shapes[k], CanvasMarquee)}}]_vars

\* A finished marquee has selected a rectangle or a line that lies inside
\* it, with a bounding box that does not
SelectedWithBoxOutside ==
  /\ lastOp.op = "mouseup"
  /\ \E i \in 1..Len(shapes) :
       /\ shapes[i].type \in {"rectangle", "line"}
       /\ shapes[i].id \in selectedShapes
       /\ ExtentInside(shapes[i], CanvasMarquee)
       /\ ~BoundingBoxInside(shapes[i], CanvasMarquee)

----------------------------------------------------------------------------
(* Properties of the editing flag *)

\* C39: a text of the scene has isEditing = true if and only if it is the
\* text that is being edited; when no text is edited, no text of the scene
\* has the flag.
EditingFlagMatchesEdit ==
  \A i \in 1..Len(shapes) :
    shapes[i].type = "text" =>
      (shapes[i].isEditing <=>
         (editingText # None /\ Val(editingText).id = shapes[i].id))

\* A text of the scene is being edited again and does not have the flag
EditedAgainWithoutFlag ==
  /\ editingText # None
  /\ \E i \in 1..Len(shapes) :
       /\ shapes[i].type = "text"
       /\ shapes[i].id = Val(editingText).id
       /\ ~shapes[i].isEditing

----------------------------------------------------------------------------
(* Properties of the committed scene *)

\* No pan, resize, drawing or marquee is going on and no text is edited
Idle ==
  /\ ~isPanning /\ ~isResizingText /\ ~isDrawing /\ ~isSelecting
  /\ editingText = None

\* C40: whenever no session is active and no text is edited, the scene is
\* the snapshot at the history index.
IdleSceneIsCommitted ==
  Idle =>
    /\ historyIndex \in 0..(Len(history) - 1)
    /\ shapes = history[historyIndex + 1]

\* No button is held and nothing is selected after a resize that Escape
\* interrupted: the resized text is in the scene and in no snapshot, and
\* isResizingText is still set
ResizeLeftUncommitted ==
  /\ heldButtons = {}
  /\ editingText = None
  /\ ~isPanning /\ ~isDrawing /\ ~isSelecting
  /\ isResizingText /\ selectedShapes = {}
  /\ historyIndex \in 0..(Len(history) - 1)
  /\ shapes # history[historyIndex + 1]
  /\ \A i \in 1..Len(history) : shapes # history[i]

====
